---- MODULE Spec2Model ----
(***************************************************************************)
(* State-machine model of SubprocessCLITransport (internal/transport):     *)
(* Connect / Disconnect, the stdin, prompt, stdout and stderr pumps, the   *)
(* channel-closing goroutine, SendRequest and sendControlRequest.          *)
(* Every goroutine is a process with a program counter; a step is the code *)
(* between two points where the goroutine can block or where another       *)
(* goroutine can observe or change the shared fields.                      *)
(***************************************************************************)
EXTENDS Integers, Sequences, FiniteSets, TLC

\* ---- bounds of the model ------------------------------------------------
MaxConns == 2        \* Connect attempts that reach exec.CommandContext (reconnect scenarios)
OneConn == 1         \* the same, in the scenarios that study one connection in depth
StdinChanCap == 2    \* capacity of stdinChan (100 in the source, scaled)
OutChanCap == 1      \* capacity of outChan (100 in the source, scaled)
NumRecs == 2         \* records the SendRequest caller submits
NumPrompt == 1       \* records the prompt source yields before end-of-stream
MaxStdout == 2       \* lines the child writes to stdout per transport
MaxStderr == 1       \* lines the child writes to stderr per transport
maxBufferSize == 3   \* maxBufferSize in bytes (1 MiB in the source, scaled)
maxStderrSize == 3   \* maxStderrSize in bytes (10 MiB in the source, scaled)
MaxErrLines == 3     \* stderr lines of any size the child writes (stderr scenarios)
MaxCalls == 1        \* ReceiveResponse calls after the first

Nil == 0
Gens == 1..(IF OneConn > MaxConns THEN OneConn ELSE MaxConns)
Pumps == {"in", "prompt", "out", "err"}
Callers == {"c1", "c2"}

VARIABLES
    isStreaming,            \* t.isStreaming
    sendShape,              \* SendRequest argument: which keys each record of `messages` has
    sendMeta,               \* SendRequest argument: which keys `metadata` has
    cwd,                    \* t.options.Cwd: "unset", or a directory that "exists" or is "missing"
    cliFound,               \* the file t.cliPath names exists
    callCtxDone,            \* the context the caller passed to Connect / Query is done
    closeStdinAfterPrompt,  \* t.closeStdinAfterPrompt
    connected,              \* t.connected
    mu,                     \* t.mu: "free" or "disconnect" (write-held across Disconnect)
    gen,                    \* generation of t.ctx / t.cmd (0: never assigned)
    ctxCancelled,           \* t.ctx is done
    proc,                   \* t.cmd: "notstarted", "running" or "exited"
    exitCode,               \* t.cmd: exit status of the child
    waited,                 \* t.cmd.ProcessState is set (a cmd.Wait() returned)
    stdin,                  \* t.stdin: "nil", "open", or "closed" (non-nil, closed pipe)
    stdinChan,              \* t.stdinChan: [st: "nil"|"open"|"closed", buf: queued lines]
    outChan,                \* t.outChan: Nil or the generation of the channel
    outBuf,                 \* per channel: buffered MessageData
    outClosed,              \* per channel: number of close() calls performed on it
    taskGroup,              \* t.taskGroup counter
    pending,                \* t.pendingControlResponses: set of stored responses
    requestCounter,         \* t.requestCounter
    clock,                  \* time.Now().UnixNano(), coarse
    pc,                     \* program counter of each pump
    hold,                   \* handleStdin: the line received from stdinChan
    promptIdx,              \* prompt source: records already yielded
    ssMsg,                  \* safeSend: the MessageData being sent, per pump
    ssChan,                 \* safeSend: the outChan value read under RLock, per pump
    line,                   \* readOutput: the parsed line in hand
    stdoutBuf,              \* stdout pipe: lines written by the child, unread
    stdoutCnt,              \* lines the child has written to stdout so far
    stderrBuf,              \* stderr pipe: the sizes of the lines unread, oldest first
    stderrCnt,              \* stderr lines the child has written so far
    stderrLines,            \* readStderr: number of lines collected
    closerPc,               \* per generation: pc of the channel-closing goroutine
    closerCmd,              \* per generation: the t.cmd value that goroutine read
    appPc,                  \* the caller of Connect / Disconnect
    appRes,                 \* result of its last call
    discFrom,               \* outChan the last completed Disconnect found when it began
    sendPc,                 \* the caller of SendRequest
    sendIdx,                \* SendRequest: records enqueued so far
    sendRes,                \* result of SendRequest
    ctl,                    \* per control caller: [pc, id, res, resp]
    issued,                 \* request ids handed out so far, each with the connection it was issued on
    childIn,                \* what the child has read from its stdin, in order
    jsonBuffer,             \* readOutput: len(jsonBuffer), the bytes accumulated unparsed
    received,               \* per channel: what the collecting consumer has got from it, in order
    jsonKind,               \* readOutput: what jsonBuffer holds: "empty", the "head" of a record, or "junk"
    stderrSize,             \* readStderr: stderrSize, the bytes of the lines stored
    stderrTrunc,            \* readStderr: truncation markers appended to stderrLines
    stderrDropped,          \* readStderr: lines received in the drain loop and not stored
    errReader,              \* readStderr's scanner goroutine: "run", or "gone" (returned on ctx.Done, done left open)
    recvChan,               \* the transport.ReceiveMessages calls made: the channel each returned
    panics                  \* run-time panics raised (send on closed channel, ...)

vars == <<isStreaming, sendShape, sendMeta, cwd, cliFound, callCtxDone, closeStdinAfterPrompt, connected, mu, gen, ctxCancelled,
          proc, exitCode, waited, stdin, stdinChan, outChan, outBuf, outClosed,
          taskGroup, pending, requestCounter, clock, pc, hold, promptIdx, ssMsg,
          ssChan, line, stdoutBuf, stdoutCnt, stderrBuf, stderrCnt, stderrLines,
          closerPc, closerCmd, appPc, appRes, discFrom, sendPc, sendIdx, sendRes,
          ctl, issued, childIn, jsonBuffer, received, jsonKind, stderrSize,
          stderrTrunc, stderrDropped, errReader, recvChan, panics>>

\* groups used in UNCHANGED clauses
envVars    == <<isStreaming, closeStdinAfterPrompt, sendShape, sendMeta, cwd, cliFound>>
cfgVars    == <<envVars, callCtxDone>>
errVars    == <<stderrSize, stderrTrunc, stderrDropped, errReader>>
auxVars    == <<jsonKind, errVars, recvChan>>
procVars   == <<proc, exitCode, waited>>
outVars    == <<outChan, outBuf, outClosed>>
ssVars     == <<ssMsg, ssChan>>
childVars  == <<stdoutBuf, stdoutCnt, stderrBuf, stderrCnt>>
closerVars == <<closerPc, closerCmd>>
appVars    == <<appPc, appRes, discFrom>>
sendVars   == <<sendPc, sendIdx, sendRes>>
ctlVars    == <<ctl, issued, requestCounter, clock>>

\* A panic terminates the Go program: nothing runs after it.
Running == panics = {}

NoMsg == [k |-> "none"]
DataMsg(v) == [k |-> "data", v |-> v]
ErrMsg(e) == [k |-> "err", e |-> e]
ScanErrMsg == [k |-> "scan_err"]

\* json.Marshal(msg) followed by append(data, '\n'): the JSON text of the
\* record as one token, then the newline byte.
Marshal(rec) == <<[t |-> "json", v |-> rec]>>
NL == [t |-> "nl"]
Line(rec) == Marshal(rec) \o <<NL>>

\* The records a caller hands to SendRequest, by the keys they carry: a
\* "type" key or not, a "session_id" key of their own or not.
MsgShapes == [hasType : BOOLEAN, hasSid : BOOLEAN]
TypedShape == [hasType |-> TRUE, hasSid |-> TRUE]

\* metadata: with a string "session_id" or without.
Metas == {"with_sid", "without_sid"}

\* The n-th record of the caller, as passed in.
SendInput(n) ==
    CASE sendShape.hasType /\ sendShape.hasSid ->
           [type |-> "user", src |-> "send", n |-> n, session_id |-> "own"]
      [] sendShape.hasType /\ ~sendShape.hasSid ->
           [type |-> "user", src |-> "send", n |-> n]
      [] ~sendShape.hasType /\ sendShape.hasSid ->
           [src |-> "send", n |-> n, session_id |-> "own"]
      [] OTHER ->
           [src |-> "send", n |-> n]

\* sessionID := "default"; if sid, ok := metadata["session_id"].(string); ok { sessionID = sid }
SessionID(meta) == IF meta = "with_sid" THEN "meta" ELSE "default"

\* if _, hasType := msg["type"]; !hasType { msg = {type, message: {role,
\* content: msg}, parent_tool_use_id, session_id} }: a record with a "type"
\* key is passed on as it is.  (src and n only identify the record.)
EnsureStructure(msg, sid) ==
    IF "type" \notin DOMAIN msg
      THEN [type |-> "user", src |-> "send", n |-> msg.n,
            message |-> [role |-> "user", content |-> msg],
            parent_tool_use_id |-> "null", session_id |-> sid]
      ELSE msg

\* The n-th record as SendRequest puts it on the queue.
SendRec(n) == EnsureStructure(SendInput(n), SessionID(sendMeta))
PromptRec(n) == [type |-> "user", src |-> "prompt", n |-> n]
\* Interrupt is the only caller: request is {"subtype": "interrupt"}.
CtlRec(id) ==
    [type |-> "control_request", request_id |-> id,
     request |-> [subtype |-> "interrupt"]]

\* fmt.Sprintf("req_%d_%d", counter, nanos): the two numbers are separated
\* by '_', so the string determines both.
FormatID(c, t) == <<"req", c, t>>

MaxClock == 0        \* clock readings after the first (0: every id gets the same timestamp)
MaxReq == 2          \* control requests issued per transport

\* The state NewSubprocessCLITransport and the With... builders leave: the
\* mode, the close-stdin option and the prompt source (how many of its
\* NumPrompt records it has already yielded) are the configuration.
Cwds == {"unset", "exists", "missing"}

InitEnv(modes, closes, yielded, shapes, metas, cwds, clis) ==
    /\ isStreaming \in modes
    /\ sendShape \in shapes
    /\ sendMeta \in metas
    /\ cwd \in cwds
    /\ cliFound \in clis
    /\ callCtxDone = FALSE
    /\ closeStdinAfterPrompt \in closes
    /\ connected = FALSE
    /\ mu = "free"
    /\ gen = 0
    /\ ctxCancelled = FALSE
    /\ proc = "notstarted"
    /\ exitCode = 0
    /\ waited = FALSE
    /\ stdin = "nil"
    /\ stdinChan = [st |-> "nil", buf |-> <<>>]
    /\ outChan = Nil
    /\ outBuf = [g \in Gens |-> <<>>]
    /\ outClosed = [g \in Gens |-> 0]
    /\ taskGroup = 0
    /\ pending = {}
    /\ requestCounter = 0
    /\ clock = 0
    /\ pc = [p \in Pumps |-> "off"]
    /\ hold = <<>>
    /\ promptIdx = yielded
    /\ ssMsg = [p \in Pumps |-> NoMsg]
    /\ ssChan = [p \in Pumps |-> Nil]
    /\ line = NoMsg
    /\ stdoutBuf = <<>>
    /\ stdoutCnt = 0
    /\ stderrBuf = <<>>
    /\ stderrCnt = 0
    /\ stderrLines = 0
    /\ closerPc = [g \in Gens |-> "off"]
    /\ closerCmd = [g \in Gens |-> Nil]
    /\ appPc = "idle"
    /\ appRes = "none"
    /\ discFrom = Nil
    /\ sendPc = "idle"
    /\ sendIdx = 0
    /\ sendRes = "none"
    /\ ctl = [c \in Callers |-> [pc |-> "idle", id |-> <<>>, res |-> "none", resp |-> NoMsg]]
    /\ issued = <<>>
    /\ childIn = <<>>
    /\ jsonBuffer = 0
    /\ jsonKind = "empty"
    /\ stderrSize = 0
    /\ stderrTrunc = 0
    /\ stderrDropped = 0
    /\ errReader = "run"
    /\ recvChan = <<>>
    /\ received = [g \in Gens |-> <<>>]
    /\ panics = {}

\* The same where the executable exists and no working directory is set.
InitArgs(modes, closes, yielded, shapes, metas) ==
    InitEnv(modes, closes, yielded, shapes, metas, {"unset"}, {TRUE})

\* The same with the SendRequest caller passing complete records.
InitCfg(modes, closes, yielded) ==
    InitArgs(modes, closes, yielded, {TypedShape}, {"with_sid"})

\* ---- Connect -------------------------------------------------------------
\* Connect runs entirely under t.mu.Lock() and never blocks inside.
\* Connect without its connected check.
NeverAlreadyConnected == FALSE

\* if t.connected { return NewCLIConnectionError("Already connected") }
AlreadyConnected == connected

ConnectAlready ==
    /\ Running
    /\ appPc = "idle" /\ mu = "free"
    /\ AlreadyConnected
    /\ appRes' = "already_connected"
    /\ UNCHANGED <<cfgVars, auxVars, jsonBuffer, received, connected, mu, gen, ctxCancelled, procVars, stdin, stdinChan,
                   outVars, taskGroup, pending, pc, hold, promptIdx, ssVars, line,
                   childVars, stderrLines, closerVars, appPc, discFrom, sendVars, ctlVars,
                   childIn, panics>>

\* A classification that looks for the executable first.
LaunchErrorCliFirst ==
    IF ~cliFound THEN "cli_not_found"
    ELSE IF cwd = "missing" THEN "cwd_missing"
    ELSE "launch_error"

\* The error Connect returns when cmd.Start() failed: os.Stat of the working
\* directory when one is set, then os.Stat of t.cliPath, else the
\* ProcessError "Failed to start Claude Code".
LaunchError ==
    IF cwd = "missing" THEN "cwd_missing"
    ELSE IF ~cliFound THEN "cli_not_found"
    ELSE "launch_error"

\* cmd.Start() can succeed only when the executable and the working
\* directory are there.
StartCanSucceed == cliFound /\ cwd # "missing"

\* cmd.Start() fails: t.ctx, t.cmd and the three pipes were already assigned.
\* n bounds the Connect attempts of the scenario.
ConnectLaunchFails(n) ==
    /\ Running
    /\ appPc = "idle" /\ mu = "free"
    /\ ~AlreadyConnected /\ gen < n
    /\ gen' = gen + 1
    /\ ctxCancelled' = FALSE
    /\ proc' = "notstarted" /\ exitCode' = 0 /\ waited' = FALSE
    /\ stdin' = "open"
    /\ appRes' = LaunchError
    /\ UNCHANGED <<cfgVars, auxVars, jsonBuffer, received, connected, mu, stdinChan,
                   outVars, taskGroup, pending, pc, hold, promptIdx, ssVars, line,
                   childVars, stderrLines, closerVars, appPc, discFrom, sendVars, ctlVars,
                   childIn, panics>>

ConnectOK(n) ==
    /\ Running
    /\ appPc = "idle" /\ mu = "free"
    /\ ~AlreadyConnected /\ gen < n
    /\ StartCanSucceed
    /\ gen' = gen + 1
    /\ ctxCancelled' = FALSE
    /\ proc' = "running" /\ exitCode' = 0 /\ waited' = FALSE
    /\ connected' = TRUE
    /\ outChan' = gen + 1
    /\ IF isStreaming
         THEN /\ stdinChan' = [st |-> "open", buf |-> <<>>]
              /\ stdin' = "open"
              /\ taskGroup' = taskGroup + 4
              /\ pc' = [p \in Pumps |->
                          CASE p = "in" -> "recv" [] p = "prompt" -> "next"
                            [] p = "out" -> "scan" [] p = "err" -> "run"]
         ELSE /\ stdin' = "nil"
              /\ taskGroup' = taskGroup + 2
              /\ pc' = [p \in Pumps |->
                          CASE p = "out" -> "scan" [] p = "err" -> "run"
                            [] OTHER -> pc[p]]
              /\ UNCHANGED stdinChan
    /\ stdoutBuf' = <<>> /\ stderrBuf' = <<>> /\ stderrLines' = 0
    /\ jsonBuffer' = 0 /\ jsonKind' = "empty"
    /\ stderrSize' = 0 /\ stderrTrunc' = 0 /\ stderrDropped' = 0
    /\ errReader' = "run"
    /\ closerPc' = [closerPc EXCEPT ![gen + 1] = "start"]
    /\ appRes' = "nil"
    /\ UNCHANGED <<cfgVars, recvChan, received, mu, outBuf, outClosed, pending,
                   hold, promptIdx, ssVars, line, stdoutCnt, stderrCnt, closerCmd, appPc, discFrom,
                   sendVars, ctlVars, childIn, panics>>

Init == InitCfg(BOOLEAN, BOOLEAN, 0)

Connect == ConnectAlready \/ ConnectLaunchFails(MaxConns) \/ ConnectOK(MaxConns)

\* ---- Disconnect ----------------------------------------------------------
\* t.mu is write-locked from the first line to the return (defer Unlock).
\* Disconnect without its early return.
NeverAlreadyDisconnected == FALSE

\* if !t.connected { return nil }
AlreadyDisconnected == ~connected

DisconnectNoop ==
    /\ Running
    /\ appPc = "idle" /\ mu = "free"
    /\ AlreadyDisconnected
    /\ appRes' = "disc_noop"
    /\ UNCHANGED <<cfgVars, auxVars, jsonBuffer, received, connected, mu, gen, ctxCancelled, procVars, stdin, stdinChan,
                   outVars, taskGroup, pending, pc, hold, promptIdx, ssVars, line,
                   childVars, stderrLines, closerVars, appPc, discFrom, sendVars, ctlVars,
                   childIn, panics>>

\* close(t.stdinChan) when it is not nil; the buffered lines stay readable.
CloseStdinChan(ch) ==
    IF ch.st = "nil" THEN ch ELSE [ch EXCEPT !.st = "closed"]

\* t.stdin.Close() when it is not nil; the field keeps the closed pipe.
CloseStdin(s) == IF s = "nil" THEN "nil" ELSE "closed"

\* connected = false, cancel(), close(stdinChan), stdin.Close(), then the
\* call blocks in the select on the process-exit wait.
DisconnectBegin ==
    /\ Running
    /\ appPc = "idle" /\ mu = "free"
    /\ ~AlreadyDisconnected
    /\ mu' = "disconnect"
    /\ connected' = FALSE
    /\ ctxCancelled' = TRUE
    /\ panics' = IF stdinChan.st = "closed" THEN panics \cup {"close_closed_stdinChan"}
                 ELSE panics
    /\ stdinChan' = CloseStdinChan(stdinChan)
    /\ stdin' = CloseStdin(stdin)
    /\ discFrom' = outChan
    /\ appPc' = "d_waitproc"
    /\ appRes' = "none"
    /\ UNCHANGED <<cfgVars, auxVars, jsonBuffer, received, gen, procVars, outVars, taskGroup, pending, pc, hold,
                   promptIdx, ssVars, line, childVars, stderrLines, closerVars,
                   sendVars, ctlVars, childIn>>

\* case <-done: cmd.Wait() returned.
DisconnectProcDone ==
    /\ Running
    /\ appPc \in {"d_waitproc", "d_killwait"}
    /\ proc = "exited"
    /\ waited' = TRUE
    /\ appPc' = "d_waittasks"
    /\ UNCHANGED <<cfgVars, auxVars, jsonBuffer, received, connected, mu, gen, ctxCancelled, proc, exitCode, stdin,
                   stdinChan, outVars, taskGroup, pending, pc, hold, promptIdx, ssVars,
                   line, childVars, stderrLines, closerVars, appRes, discFrom, sendVars,
                   ctlVars, childIn, panics>>

\* case <-time.After(disconnectTimeout): Process.Kill(), then <-done.
DisconnectTimeout ==
    /\ Running
    /\ appPc = "d_waitproc"
    /\ proc = "running"
    /\ appPc' = "d_killwait"
    /\ UNCHANGED <<cfgVars, auxVars, jsonBuffer, received, connected, mu, gen, ctxCancelled, procVars, stdin,
                   stdinChan, outVars, taskGroup, pending, pc, hold, promptIdx, ssVars,
                   line, childVars, stderrLines, closerVars, appRes, discFrom, sendVars,
                   ctlVars, childIn, panics>>

\* t.taskGroup.Wait() returns, the deferred Unlock runs, Disconnect returns nil.
DisconnectReturn ==
    /\ Running
    /\ appPc = "d_waittasks"
    /\ taskGroup = 0
    /\ mu' = "free"
    /\ appPc' = "idle"
    /\ appRes' = "disc_done"
    /\ UNCHANGED <<cfgVars, auxVars, jsonBuffer, received, connected, gen, ctxCancelled, procVars, stdin,
                   stdinChan, outVars, taskGroup, pending, pc, hold, promptIdx, ssVars,
                   line, childVars, stderrLines, closerVars, discFrom, sendVars,
                   ctlVars, childIn, panics>>

Disconnect ==
    \/ DisconnectNoop \/ DisconnectBegin \/ DisconnectProcDone
    \/ DisconnectTimeout \/ DisconnectReturn

\* ---- the channel-closing goroutine started by Connect --------------------
\* It reads t.cmd when it first runs, not when Connect started it.
CloserStart(g) ==
    /\ Running
    /\ closerPc[g] = "start"
    /\ closerCmd' = [closerCmd EXCEPT ![g] = gen]
    /\ closerPc' = [closerPc EXCEPT ![g] = "waitproc"]
    /\ UNCHANGED <<cfgVars, auxVars, jsonBuffer, received, connected, mu, gen, ctxCancelled, procVars, stdin,
                   stdinChan, outVars, taskGroup, pending, pc, hold, promptIdx, ssVars,
                   line, childVars, stderrLines, appVars, sendVars, ctlVars, childIn,
                   panics>>

\* t.cmd.Wait() returns: the process has exited, or was never started.  A
\* cmd of an earlier generation is one of the two: Connect replaces t.cmd
\* only while disconnected, and Disconnect returns after the exit.
\* Wait closes the parent's ends of the pipes of its cmd after the exit: the
\* stdin pipe t.stdin still points to becomes a closed pipe.
CloserProcDone(g) ==
    /\ Running
    /\ closerPc[g] = "waitproc"
    /\ closerCmd[g] = gen => proc # "running"
    /\ waited' = IF closerCmd[g] = gen /\ proc = "exited" THEN TRUE ELSE waited
    /\ stdin' = IF closerCmd[g] = gen /\ proc = "exited" THEN CloseStdin(stdin) ELSE stdin
    /\ closerPc' = [closerPc EXCEPT ![g] = "waittasks"]
    /\ UNCHANGED <<cfgVars, auxVars, jsonBuffer, received, connected, mu, gen, ctxCancelled, proc, exitCode,
                   stdinChan, outVars, taskGroup, pending, pc, hold, promptIdx, ssVars,
                   line, childVars, stderrLines, closerCmd, appVars, sendVars, ctlVars,
                   childIn, panics>>

\* t.taskGroup.Wait() returns.
CloserTasksDone(g) ==
    /\ Running
    /\ closerPc[g] = "waittasks"
    /\ taskGroup = 0
    /\ closerPc' = [closerPc EXCEPT ![g] = "lock"]
    /\ UNCHANGED <<cfgVars, auxVars, jsonBuffer, received, connected, mu, gen, ctxCancelled, procVars, stdin,
                   stdinChan, outVars, taskGroup, pending, pc, hold, promptIdx, ssVars,
                   line, childVars, stderrLines, closerCmd, appVars, sendVars, ctlVars,
                   childIn, panics>>

\* if t.outChan != nil { close(t.outChan) }
CloserCloses(oc) == oc # Nil
\* The closing goroutine forgetting to clear the field.
CloserKeepsOutChan(oc) == oc

\* t.outChan = nil after the close
CloserOutChanAfter(oc) == Nil

\* Under t.mu.Lock(): close whatever channel t.outChan holds now, clear it.
CloserClose(g) ==
    /\ Running
    /\ closerPc[g] = "lock"
    /\ mu = "free"
    /\ IF CloserCloses(outChan)
         THEN /\ outClosed' = [outClosed EXCEPT ![outChan] = @ + 1]
              /\ outChan' = CloserOutChanAfter(outChan)
         ELSE UNCHANGED <<outClosed, outChan>>
    /\ closerPc' = [closerPc EXCEPT ![g] = "done"]
    /\ UNCHANGED <<cfgVars, auxVars, jsonBuffer, received, connected, mu, gen, ctxCancelled, procVars, stdin,
                   stdinChan, outBuf, taskGroup, pending, pc, hold, promptIdx, ssVars,
                   line, childVars, stderrLines, closerCmd, appVars, sendVars, ctlVars,
                   childIn, panics>>

Closer(g) == CloserStart(g) \/ CloserProcDone(g) \/ CloserTasksDone(g) \/ CloserClose(g)

\* ---- the child process ---------------------------------------------------
\* Request ids the child has read from its input stream.
RECURSIVE IdsIn(_)
IdsIn(stream) ==
    IF stream = <<>> THEN {}
    ELSE LET h == Head(stream) IN
         (IF h.t = "json" /\ h.v.type = "control_request"
            THEN {h.v.request_id} ELSE {})
         \cup IdsIn(Tail(stream))

DomainLine(n) == [type |-> "result", n |-> n]
\* {"type":"control_response","response":{"request_id":..,"subtype":..,"error":..}}
\* hasErr: the response carries a string "error" field.
CtlResponse(id, subtype, hasErr) ==
    [type |-> "control_response",
     response |-> [request_id |-> id, subtype |-> subtype, hasErr |-> hasErr]]

\* A control_response record that lacks what the control channel needs: it
\* has no "response" object, or its response has no string "request_id".
\* n is the number of the line, as in a domain record.
MalformedKinds == {"no_response", "no_request_id"}
MalformedCtl(kind, n) ==
    IF kind = "no_response"
      THEN [type |-> "control_response", n |-> n]
      ELSE [type |-> "control_response", n |-> n, response |-> [subtype |-> "success"]]

\* A readOutput that knows no control responses.
NeverControlResponse(l) == FALSE

\* data["type"] == "control_response"
IsControlResponse(l) == l.type = "control_response"

\* response, ok := data["response"].(map[string]any), then
\* requestID, ok := response["request_id"].(string)
WellFormedCtl(l) ==
    /\ "response" \in DOMAIN l
    /\ "request_id" \in DOMAIN l.response

\* What the child may write next: a domain record, or an answer to a
\* control request it has read: success, error with a message, or error
\* without one (the "error" field is optional).
StdoutLines ==
    {DomainLine(stdoutCnt + 1)}
    \cup {CtlResponse(id, "success", FALSE) : id \in IdsIn(childIn)}
    \cup {CtlResponse(id, "error", he) : id \in IdsIn(childIn), he \in BOOLEAN}

ChildWriteStdout ==
    /\ Running
    /\ gen > 0 /\ proc = "running"
    /\ stdoutCnt < MaxStdout
    /\ \E l \in StdoutLines : stdoutBuf' = Append(stdoutBuf, l)
    /\ stdoutCnt' = stdoutCnt + 1
    /\ UNCHANGED <<cfgVars, auxVars, jsonBuffer, received, connected, mu, gen, ctxCancelled, procVars, stdin,
                   stdinChan, outVars, taskGroup, pending, pc, hold, promptIdx, ssVars,
                   line, stderrBuf, stderrCnt, stderrLines, closerVars, appVars,
                   sendVars, ctlVars, childIn, panics>>

\* len(line) of a short line: one byte on the model's scale.
SmallLine == 1

\* The lines readStderr's main loop can still receive after the child wrote
\* one of the given size: a line written after the scanner goroutine has
\* returned stays in the pipe.
StderrAfterWrite(size) ==
    IF errReader = "gone" THEN stderrBuf ELSE Append(stderrBuf, size)

\* A line that is not JSON and completes none: size bytes before the newline.
Fragment(size) == [type |-> "fragment", size |-> size]

\* len(line): a whole JSON record is short, one byte on the model's scale.
LineSize(l) == IF l.type = "fragment" THEN l.size ELSE 1

\* The child writes a line of junk, up to one byte more than the scanner's
\* buffer holds.
ChildWriteRaw ==
    /\ Running
    /\ gen > 0 /\ proc = "running"
    /\ stdoutCnt < MaxStdout
    /\ \E size \in 1..(maxBufferSize + 1) : stdoutBuf' = Append(stdoutBuf, Fragment(size))
    /\ stdoutCnt' = stdoutCnt + 1
    /\ UNCHANGED <<cfgVars, auxVars, jsonBuffer, received, connected, mu, gen, ctxCancelled, procVars, stdin,
                   stdinChan, outVars, taskGroup, pending, pc, hold, promptIdx, ssVars,
                   line, stderrBuf, stderrCnt, stderrLines, closerVars, appVars,
                   sendVars, ctlVars, childIn, panics>>

\* A record the child prints over two lines: the head opens the object,
\* the tail closes it.  Neither parses alone, the head followed by the tail
\* does, and a head followed by anything else never will.
HeadLine(n) == [type |-> "fragment", size |-> SmallLine, part |-> "head", n |-> n]
TailLine(n) == [type |-> "fragment", size |-> SmallLine, part |-> "tail", n |-> n]
IsHead(l) == l.type = "fragment" /\ "part" \in DOMAIN l /\ l.part = "head"
IsTail(l) == l.type = "fragment" /\ "part" \in DOMAIN l /\ l.part = "tail"

\* The record json.Unmarshal yields for a head and its tail.
JoinedRecord(l) == [type |-> "assistant", n |-> l.n, split |-> TRUE]

\* The child writes one line of a two-line record.
ChildWriteSplit ==
    /\ Running
    /\ gen > 0 /\ proc = "running"
    /\ stdoutCnt < MaxStdout
    /\ \E l \in {HeadLine(stdoutCnt + 1), TailLine(stdoutCnt + 1)} :
          stdoutBuf' = Append(stdoutBuf, l)
    /\ stdoutCnt' = stdoutCnt + 1
    /\ UNCHANGED <<cfgVars, auxVars, jsonBuffer, received, connected, mu, gen, ctxCancelled, procVars, stdin,
                   stdinChan, outVars, taskGroup, pending, pc, hold, promptIdx, ssVars,
                   line, stderrBuf, stderrCnt, stderrLines, closerVars, appVars,
                   sendVars, ctlVars, childIn, panics>>

\* The child writes a control_response record that is not well formed.
ChildWriteMalformed ==
    /\ Running
    /\ gen > 0 /\ proc = "running"
    /\ stdoutCnt < MaxStdout
    /\ \E kind \in MalformedKinds :
          stdoutBuf' = Append(stdoutBuf, MalformedCtl(kind, stdoutCnt + 1))
    /\ stdoutCnt' = stdoutCnt + 1
    /\ UNCHANGED <<cfgVars, auxVars, jsonBuffer, received, connected, mu, gen, ctxCancelled, procVars, stdin,
                   stdinChan, outVars, taskGroup, pending, pc, hold, promptIdx, ssVars,
                   line, stderrBuf, stderrCnt, stderrLines, closerVars, appVars,
                   sendVars, ctlVars, childIn, panics>>

\* A domain record that is not a result message.
AssistantLine(n) == [type |-> "assistant", n |-> n]

\* The child writes an assistant message.
ChildWriteAssistant ==
    /\ Running
    /\ gen > 0 /\ proc = "running"
    /\ stdoutCnt < MaxStdout
    /\ stdoutBuf' = Append(stdoutBuf, AssistantLine(stdoutCnt + 1))
    /\ stdoutCnt' = stdoutCnt + 1
    /\ UNCHANGED <<cfgVars, auxVars, jsonBuffer, received, connected, mu, gen, ctxCancelled, procVars, stdin,
                   stdinChan, outVars, taskGroup, pending, pc, hold, promptIdx, ssVars,
                   line, stderrBuf, stderrCnt, stderrLines, closerVars, appVars,
                   sendVars, ctlVars, childIn, panics>>

\* The child writes a domain record.
ChildWriteDomain ==
    /\ Running
    /\ gen > 0 /\ proc = "running"
    /\ stdoutCnt < MaxStdout
    /\ stdoutBuf' = Append(stdoutBuf, DomainLine(stdoutCnt + 1))
    /\ stdoutCnt' = stdoutCnt + 1
    /\ UNCHANGED <<cfgVars, auxVars, jsonBuffer, received, connected, mu, gen, ctxCancelled, procVars, stdin,
                   stdinChan, outVars, taskGroup, pending, pc, hold, promptIdx, ssVars,
                   line, stderrBuf, stderrCnt, stderrLines, closerVars, appVars,
                   sendVars, ctlVars, childIn, panics>>

\* Responses to request id that are on their way to, or in the hands of, its
\* caller: written and unread, parsed by readOutput, stored, or picked up.
Answered(id) ==
    \/ \E i \in 1..Len(stdoutBuf) :
          /\ IsControlResponse(stdoutBuf[i]) /\ WellFormedCtl(stdoutBuf[i])
          /\ stdoutBuf[i].response.request_id = id
    \/ line # NoMsg /\ line.response.request_id = id
    \/ \E e \in pending : e.key = id
    \/ \E c \in Callers : ctl[c].pc = "del" /\ ctl[c].id = id

\* A child that follows the protocol: one response per request it has read.
ChildAnswer ==
    /\ Running
    /\ gen > 0 /\ proc = "running"
    /\ stdoutCnt < MaxStdout
    /\ \E id \in IdsIn(childIn), l \in StdoutLines :
         /\ IsControlResponse(l) /\ l.response.request_id = id
         /\ ~Answered(id)
         /\ \E c \in Callers : ctl[c].id = id /\ ctl[c].pc = "poll"
         /\ stdoutBuf' = Append(stdoutBuf, l)
    /\ stdoutCnt' = stdoutCnt + 1
    /\ UNCHANGED <<cfgVars, auxVars, jsonBuffer, received, connected, mu, gen, ctxCancelled, procVars, stdin,
                   stdinChan, outVars, taskGroup, pending, pc, hold, promptIdx, ssVars,
                   line, stderrBuf, stderrCnt, stderrLines, closerVars, appVars,
                   sendVars, ctlVars, childIn, panics>>

ChildWriteStderr ==
    /\ Running
    /\ gen > 0 /\ proc = "running"
    /\ stderrCnt < MaxStderr
    /\ stderrBuf' = StderrAfterWrite(SmallLine)
    /\ stderrCnt' = stderrCnt + 1
    /\ UNCHANGED <<cfgVars, auxVars, jsonBuffer, received, connected, mu, gen, ctxCancelled, procVars, stdin,
                   stdinChan, outVars, taskGroup, pending, pc, hold, promptIdx, ssVars,
                   line, stdoutBuf, stdoutCnt, stderrLines, closerVars, appVars,
                   sendVars, ctlVars, childIn, panics>>

\* The child writes a stderr line of any size the scanner returns: its
\* buffer (bufio.MaxScanTokenSize) is far smaller than maxStderrSize.
ChildWriteStderrSized ==
    /\ Running
    /\ gen > 0 /\ proc = "running"
    /\ stderrCnt < MaxErrLines
    /\ \E size \in 1..(maxStderrSize - 1) : stderrBuf' = StderrAfterWrite(size)
    /\ stderrCnt' = stderrCnt + 1
    /\ UNCHANGED <<cfgVars, auxVars, jsonBuffer, received, connected, mu, gen, ctxCancelled, procVars, stdin,
                   stdinChan, outVars, taskGroup, pending, pc, hold, promptIdx, ssVars,
                   line, stdoutBuf, stdoutCnt, stderrLines, closerVars, appVars,
                   sendVars, ctlVars, childIn, panics>>

\* The child exits on its own, when its input is closed, or killed (by
\* exec.CommandContext once the connection context is cancelled, or by
\* Process.Kill()).  0 is a clean exit, 1 stands for every non-zero status.
ExitCodes == {0, 1}

ChildExit ==
    /\ Running
    /\ gen > 0 /\ proc = "running"
    /\ \E code \in ExitCodes : exitCode' = code
    /\ proc' = "exited"
    /\ UNCHANGED <<cfgVars, auxVars, jsonBuffer, received, connected, mu, gen, ctxCancelled, waited, stdin,
                   stdinChan, outVars, taskGroup, pending, pc, hold, promptIdx, ssVars,
                   line, childVars, stderrLines, closerVars, appVars, sendVars, ctlVars,
                   childIn, panics>>

\* ProcessState.ExitCode() of a process that a signal terminated.
Killed == -1

\* The child's input is at end of stream: the pipe was closed on the parent's side.
InputClosed == stdin \in {"nil", "closed"}

\* A child that exits cleanly once it reads end of stream on its stdin.
ChildExitOnEOF ==
    /\ Running
    /\ gen > 0 /\ proc = "running"
    /\ InputClosed
    /\ exitCode' = 0
    /\ proc' = "exited"
    /\ UNCHANGED <<cfgVars, auxVars, jsonBuffer, received, connected, mu, gen, ctxCancelled, waited, stdin,
                   stdinChan, outVars, taskGroup, pending, pc, hold, promptIdx, ssVars,
                   line, childVars, stderrLines, closerVars, appVars, sendVars, ctlVars,
                   childIn, panics>>

\* exec.CommandContext(t.ctx, ...): once t.ctx is done the exec package
\* kills the process (os.Process.Kill) if it has not completed.
ContextKill ==
    /\ Running
    /\ gen > 0 /\ proc = "running"
    /\ ctxCancelled
    /\ exitCode' = Killed
    /\ proc' = "exited"
    /\ UNCHANGED <<cfgVars, auxVars, jsonBuffer, received, connected, mu, gen, ctxCancelled, waited, stdin,
                   stdinChan, outVars, taskGroup, pending, pc, hold, promptIdx, ssVars,
                   line, childVars, stderrLines, closerVars, appVars, sendVars, ctlVars,
                   childIn, panics>>

\* t.cmd.Process.Kill() in Disconnect's timeout branch takes effect.
TimeoutKill ==
    /\ Running
    /\ gen > 0 /\ proc = "running"
    /\ appPc = "d_killwait"
    /\ exitCode' = Killed
    /\ proc' = "exited"
    /\ UNCHANGED <<cfgVars, auxVars, jsonBuffer, received, connected, mu, gen, ctxCancelled, waited, stdin,
                   stdinChan, outVars, taskGroup, pending, pc, hold, promptIdx, ssVars,
                   line, childVars, stderrLines, closerVars, appVars, sendVars, ctlVars,
                   childIn, panics>>

Child ==
    \/ ChildExitOnEOF \/ ContextKill \/ TimeoutKill \/ ChildWriteAssistant
    \/ ChildWriteStdout \/ ChildWriteDomain \/ ChildWriteMalformed \/ ChildWriteRaw
    \/ ChildWriteSplit \/ ChildWriteStderrSized
    \/ ChildAnswer \/ ChildWriteStderr \/ ChildExit

\* ---- the consumer of ReceiveMessages -------------------------------------
ConsumerRecv(c) ==
    /\ Running
    /\ outBuf[c] # <<>>
    /\ outBuf' = [outBuf EXCEPT ![c] = Tail(@)]
    /\ UNCHANGED <<cfgVars, auxVars, jsonBuffer, received, connected, mu, gen, ctxCancelled, procVars, stdin,
                   stdinChan, outChan, outClosed, taskGroup, pending, pc, hold,
                   promptIdx, ssVars, line, childVars, stderrLines, closerVars, appVars,
                   sendVars, ctlVars, childIn, panics>>

\* A consumer that keeps what it receives: for msg := range ch { ... }.
ConsumerCollect(c) ==
    /\ Running
    /\ outBuf[c] # <<>>
    /\ outBuf' = [outBuf EXCEPT ![c] = Tail(@)]
    /\ received' = [received EXCEPT ![c] = Append(@, Head(outBuf[c]))]
    /\ UNCHANGED <<cfgVars, auxVars, jsonBuffer, connected, mu, gen, ctxCancelled, procVars, stdin,
                   stdinChan, outChan, outClosed, taskGroup, pending, pc, hold,
                   promptIdx, ssVars, line, childVars, stderrLines, closerVars, appVars,
                   sendVars, ctlVars, childIn, panics>>

ClosedMark == [k |-> "closed"]

\* The range loop ends: the channel is closed and drained.
ConsumerSeesClosed(c) ==
    /\ Running
    /\ outBuf[c] = <<>> /\ outClosed[c] > 0
    /\ ClosedMark \notin {received[c][i] : i \in 1..Len(received[c])}
    /\ received' = [received EXCEPT ![c] = Append(@, ClosedMark)]
    /\ UNCHANGED <<cfgVars, auxVars, jsonBuffer, connected, mu, gen, ctxCancelled, procVars, stdin,
                   stdinChan, outVars, taskGroup, pending, pc, hold,
                   promptIdx, ssVars, line, childVars, stderrLines, closerVars, appVars,
                   sendVars, ctlVars, childIn, panics>>

\* ---- safeSend, shared by the four pumps ----------------------------------
\* Where a pump continues after safeSend returns: readOutput goes on scanning
\* after a record or an overflow error, every other call site returns.
AfterSend(p, msg) ==
    IF p = "out" /\ msg.k # "scan_err" THEN "scan" ELSE "done"

\* pc and taskGroup when pump p moves to `to`; "done" runs taskGroup.Done().
Goto(p, to) ==
    /\ pc' = [pc EXCEPT ![p] = to]
    /\ taskGroup' = IF to = "done" THEN taskGroup - 1 ELSE taskGroup

\* RLock; outChan := t.outChan; RUnlock; if outChan == nil return false.
SafeSendRead(p) ==
    /\ Running
    /\ pc[p] = "ss_read"
    /\ mu = "free"
    /\ ssChan' = [ssChan EXCEPT ![p] = outChan]
    /\ IF outChan = Nil
         THEN /\ Goto(p, AfterSend(p, ssMsg[p]))
              /\ ssMsg' = [ssMsg EXCEPT ![p] = NoMsg]
         ELSE /\ Goto(p, "ss_select")
              /\ UNCHANGED ssMsg
    /\ UNCHANGED <<cfgVars, auxVars, jsonBuffer, received, connected, mu, gen, ctxCancelled, procVars, stdin,
                   stdinChan, outVars, pending, hold, promptIdx, line, childVars,
                   stderrLines, closerVars, appVars, sendVars, ctlVars, childIn, panics>>

\* select { case outChan <- msg: ; case <-t.ctx.Done(): } : the send.
SafeSendDeliver(p) ==
    /\ Running
    /\ pc[p] = "ss_select"
    /\ LET c == ssChan[p] IN
       IF outClosed[c] > 0
         THEN /\ panics' = panics \cup {"send_closed_outChan"}
              /\ UNCHANGED outBuf
         ELSE /\ Len(outBuf[c]) < OutChanCap
              /\ outBuf' = [outBuf EXCEPT ![c] = Append(@, ssMsg[p])]
              /\ UNCHANGED panics
    /\ Goto(p, AfterSend(p, ssMsg[p]))
    /\ ssMsg' = [ssMsg EXCEPT ![p] = NoMsg]
    /\ ssChan' = [ssChan EXCEPT ![p] = Nil]
    /\ UNCHANGED <<cfgVars, auxVars, jsonBuffer, received, connected, mu, gen, ctxCancelled, procVars, stdin,
                   stdinChan, outChan, outClosed, pending, hold, promptIdx,
                   line, childVars, stderrLines, closerVars, appVars, sendVars, ctlVars,
                   childIn>>

\* the same select, case <-t.ctx.Done(): return false.
SafeSendCancelled(p) ==
    /\ Running
    /\ pc[p] = "ss_select"
    /\ ctxCancelled
    /\ Goto(p, AfterSend(p, ssMsg[p]))
    /\ ssMsg' = [ssMsg EXCEPT ![p] = NoMsg]
    /\ ssChan' = [ssChan EXCEPT ![p] = Nil]
    /\ UNCHANGED <<cfgVars, auxVars, jsonBuffer, received, connected, mu, gen, ctxCancelled, procVars, stdin,
                   stdinChan, outVars, pending, hold, promptIdx, line,
                   childVars, stderrLines, closerVars, appVars, sendVars, ctlVars,
                   childIn, panics>>

SafeSend(p) == SafeSendRead(p) \/ SafeSendDeliver(p) \/ SafeSendCancelled(p)

\* ---- handleStdin ---------------------------------------------------------
\* for data := range t.stdinChan: receive the next queued line.
StdinRecv ==
    /\ Running
    /\ pc["in"] = "recv"
    /\ stdinChan.buf # <<>>
    /\ hold' = Head(stdinChan.buf)
    /\ stdinChan' = [stdinChan EXCEPT !.buf = Tail(@)]
    /\ Goto("in", "write")
    /\ UNCHANGED <<cfgVars, auxVars, jsonBuffer, received, connected, mu, gen, ctxCancelled, procVars, stdin,
                   outVars, pending, promptIdx, ssVars, line, childVars, stderrLines,
                   closerVars, appVars, sendVars, ctlVars, childIn, panics>>

\* the range ends: the channel is closed and drained.
StdinChanEnd ==
    /\ Running
    /\ pc["in"] = "recv"
    /\ stdinChan.buf = <<>> /\ stdinChan.st = "closed"
    /\ Goto("in", "done")
    /\ UNCHANGED <<cfgVars, auxVars, jsonBuffer, received, connected, mu, gen, ctxCancelled, procVars, stdin,
                   stdinChan, outVars, pending, hold, promptIdx, ssVars, line,
                   childVars, stderrLines, closerVars, appVars, sendVars, ctlVars,
                   childIn, panics>>

\* t.stdin.Write(data) succeeds while the pipe is open and the child alive.
WriteSucceeds == stdin = "open" /\ proc = "running"

\* if t.stdin == nil { break }; Write; on error safeSend(err) and break.
StdinWrite ==
    /\ Running
    /\ pc["in"] = "write"
    /\ IF stdin = "nil"
         THEN /\ Goto("in", "done")
              /\ UNCHANGED <<childIn, ssMsg>>
         ELSE IF WriteSucceeds
           THEN /\ childIn' = childIn \o hold
                /\ Goto("in", "recv")
                /\ UNCHANGED ssMsg
           ELSE /\ ssMsg' = [ssMsg EXCEPT !["in"] = ErrMsg("stdin_write")]
                /\ Goto("in", "ss_read")
                /\ UNCHANGED childIn
    /\ hold' = <<>>
    /\ UNCHANGED <<cfgVars, auxVars, jsonBuffer, received, connected, mu, gen, ctxCancelled, procVars, stdin,
                   stdinChan, outVars, pending, promptIdx, ssChan, line, childVars,
                   stderrLines, closerVars, appVars, sendVars, ctlVars, panics>>

HandleStdin == StdinRecv \/ StdinChanEnd \/ StdinWrite \/ SafeSend("in")

\* ---- sending on t.stdinChan (SendRequest, streamToStdin, control) --------
\* A channel without a capacity: a send never waits for room.
CanSendUnbounded(ch) == ch.st # "nil"

\* A send on the channel the field holds now: possible when there is room,
\* a panic when the channel is closed, blocked when it is nil or full.
CanSend(ch) == ch.st = "closed" \/ (ch.st = "open" /\ Len(ch.buf) < StdinChanCap)
\* A queue that hands the newest line out first.
EnqueueFront(ch, ln) == [ch EXCEPT !.buf = <<ln>> \o @]

\* t.stdinChan <- line: a Go channel is first-in first-out.
Enqueue(ch, ln) == [ch EXCEPT !.buf = Append(@, ln)]

ChanSend(ln) ==
    /\ CanSend(stdinChan)
    /\ IF stdinChan.st = "closed"
         THEN /\ panics' = panics \cup {"send_closed_stdinChan"}
              /\ UNCHANGED stdinChan
         ELSE /\ stdinChan' = Enqueue(stdinChan, ln)
              /\ UNCHANGED panics

\* ---- streamToStdin -------------------------------------------------------
\* t.prompt.Next: the next record, or nil at end of stream.
PromptNext ==
    /\ Running
    /\ pc["prompt"] = "next"
    /\ IF promptIdx < NumPrompt
         THEN /\ promptIdx' = promptIdx + 1
              /\ Goto("prompt", "enq")
         ELSE /\ UNCHANGED promptIdx
              /\ Goto("prompt", IF closeStdinAfterPrompt THEN "close" ELSE "done")
    /\ UNCHANGED <<cfgVars, auxVars, jsonBuffer, received, connected, mu, gen, ctxCancelled, procVars, stdin,
                   stdinChan, outVars, pending, hold, ssVars, line, childVars,
                   stderrLines, closerVars, appVars, sendVars, ctlVars, childIn, panics>>

\* select { case t.stdinChan <- line: ; case <-t.ctx.Done(): return }
PromptEnqueue ==
    /\ Running
    /\ pc["prompt"] = "enq"
    /\ ChanSend(Line(PromptRec(promptIdx)))
    /\ Goto("prompt", "next")
    /\ UNCHANGED <<cfgVars, auxVars, jsonBuffer, received, connected, mu, gen, ctxCancelled, procVars, stdin,
                   outVars, pending, hold, promptIdx, ssVars, line, childVars,
                   stderrLines, closerVars, appVars, sendVars, ctlVars, childIn>>

PromptCancelled ==
    /\ Running
    /\ pc["prompt"] = "enq"
    /\ ctxCancelled
    /\ Goto("prompt", "done")
    /\ UNCHANGED <<cfgVars, auxVars, jsonBuffer, received, connected, mu, gen, ctxCancelled, procVars, stdin,
                   stdinChan, outVars, pending, hold, promptIdx, ssVars, line,
                   childVars, stderrLines, closerVars, appVars, sendVars, ctlVars,
                   childIn, panics>>

\* closeStdinAfterPrompt: under t.mu.Lock(), close t.stdin and set it to nil.
PromptCloseStdin ==
    /\ Running
    /\ pc["prompt"] = "close"
    /\ mu = "free"
    /\ stdin' = "nil"
    /\ Goto("prompt", "done")
    /\ UNCHANGED <<cfgVars, auxVars, jsonBuffer, received, connected, mu, gen, ctxCancelled, procVars,
                   stdinChan, outVars, pending, hold, promptIdx, ssVars, line,
                   childVars, stderrLines, closerVars, appVars, sendVars, ctlVars,
                   childIn, panics>>

StreamToStdin == PromptNext \/ PromptEnqueue \/ PromptCancelled \/ PromptCloseStdin

\* ---- readOutput ----------------------------------------------------------
\* bufio.Scanner with Buffer(make([]byte, maxBufferSize), maxBufferSize):
\* a line that fills the buffer without a newline in it is no token; Scan
\* returns false and Err() is bufio.ErrTooLong.
TooLong(l) == LineSize(l) >= maxBufferSize

\* json.Unmarshal(jsonBuffer) succeeds: a whole record, with no junk
\* accumulated in front of it.
Parses(acc, l) ==
    \/ acc = 0 /\ l.type # "fragment"
    \/ jsonKind = "head" /\ IsTail(l)

\* The parsed record: the line itself, or the two lines joined.
ParsedRecord(l) == IF IsTail(l) THEN JoinedRecord(l) ELSE l

\* An accumulator without a limit.
NeverOverflows(acc) == FALSE

\* if len(jsonBuffer) > maxBufferSize
Overflows(acc) == acc > maxBufferSize

\* What jsonBuffer holds after a line that did not complete a record was
\* appended to it.
KindAfter(l) == IF jsonBuffer = 0 /\ IsHead(l) THEN "head" ELSE "junk"

OverflowErr == ErrMsg("buffer_overflow")

\* A scanner that hands out the newest line of the pipe.
ScanNewest(buf) == buf[Len(buf)]

\* scanner.Text() after scanner.Scan(): the oldest unread line of the pipe.
ScanLine(buf) == Head(buf)

\* scanner.Scan() returns a line that parses as one JSON object.
OutScan ==
    /\ Running
    /\ pc["out"] = "scan"
    /\ stdoutBuf # <<>>
    /\ ~TooLong(ScanLine(stdoutBuf))
    /\ ~Overflows(jsonBuffer + LineSize(ScanLine(stdoutBuf)))
    /\ Parses(jsonBuffer, ScanLine(stdoutBuf))
    /\ IsControlResponse(ScanLine(stdoutBuf)) => WellFormedCtl(ScanLine(stdoutBuf))
    /\ LET l == ScanLine(stdoutBuf) IN
       IF IsControlResponse(l)
         THEN /\ line' = l
              /\ Goto("out", "store")
              /\ UNCHANGED ssMsg
         ELSE /\ ssMsg' = [ssMsg EXCEPT !["out"] = DataMsg(ParsedRecord(l))]
              /\ Goto("out", "ss_read")
              /\ UNCHANGED line
    /\ jsonBuffer' = 0 /\ jsonKind' = "empty"
    /\ stdoutBuf' = Tail(stdoutBuf)
    /\ UNCHANGED <<cfgVars, errVars, recvChan, received, connected, mu, gen, ctxCancelled, procVars, stdin,
                   stdinChan, outVars, pending, hold, promptIdx, ssChan, stdoutCnt,
                   stderrBuf, stderrCnt, stderrLines, closerVars, appVars, sendVars,
                   ctlVars, childIn, panics>>

\* scanner.Scan() returns a line that does not complete a JSON object:
\* jsonBuffer += jsonLine; over maxBufferSize the accumulator is cleared and
\* a decode error is sent, otherwise the loop goes on accumulating.
OutAccumulate ==
    /\ Running
    /\ pc["out"] = "scan"
    /\ stdoutBuf # <<>>
    /\ ~TooLong(Head(stdoutBuf))
    /\ LET acc == jsonBuffer + LineSize(Head(stdoutBuf)) IN
       /\ Overflows(acc) \/ ~Parses(jsonBuffer, Head(stdoutBuf))
       /\ IF Overflows(acc)
            THEN /\ jsonBuffer' = 0 /\ jsonKind' = "empty"
                 /\ ssMsg' = [ssMsg EXCEPT !["out"] = OverflowErr]
                 /\ Goto("out", "ss_read")
            ELSE /\ jsonBuffer' = acc /\ jsonKind' = KindAfter(Head(stdoutBuf))
                 /\ UNCHANGED <<ssMsg, pc, taskGroup>>
    /\ stdoutBuf' = Tail(stdoutBuf)
    /\ UNCHANGED <<cfgVars, errVars, recvChan, received, connected, mu, gen, ctxCancelled, procVars, stdin,
                   stdinChan, outVars, pending, hold, promptIdx, ssChan, line, stdoutCnt,
                   stderrBuf, stderrCnt, stderrLines, closerVars, appVars, sendVars,
                   ctlVars, childIn, panics>>

\* scanner.Scan() returns false on a line longer than its buffer: the loop
\* ends, scanner.Err() is not nil and not io.EOF, the read error is sent
\* and readOutput returns.  The scanner reads nothing further.
OutTooLong ==
    /\ Running
    /\ pc["out"] = "scan"
    /\ stdoutBuf # <<>>
    /\ TooLong(Head(stdoutBuf))
    /\ ssMsg' = [ssMsg EXCEPT !["out"] = ScanErrMsg]
    /\ Goto("out", "ss_read")
    /\ stdoutBuf' = Tail(stdoutBuf)
    /\ UNCHANGED <<cfgVars, auxVars, jsonBuffer, received, connected, mu, gen, ctxCancelled, procVars, stdin,
                   stdinChan, outVars, pending, hold, promptIdx, ssChan, line, stdoutCnt,
                   stderrBuf, stderrCnt, stderrLines, closerVars, appVars, sendVars,
                   ctlVars, childIn, panics>>

\* A table that files every response under one fixed key.
StoreUnderFixedKey(resp) == <<"req", 0, 0>>

\* t.pendingControlResponses[requestID] = response: the entry stored under
\* the response's own request_id, replacing an earlier entry of that id.
StoreKey(resp) == resp.request_id
StoreResponse(tbl, resp) ==
    {e \in tbl : e.key # StoreKey(resp)} \cup {[key |-> StoreKey(resp), resp |-> resp]}

\* t.mu.Lock(); store; t.mu.Unlock(); continue
OutStore ==
    /\ Running
    /\ pc["out"] = "store"
    /\ mu = "free"
    /\ pending' = StoreResponse(pending, line.response)
    /\ line' = NoMsg
    /\ Goto("out", "scan")
    /\ UNCHANGED <<cfgVars, auxVars, jsonBuffer, received, connected, mu, gen, ctxCancelled, procVars, stdin,
                   stdinChan, outVars, hold, promptIdx, ssVars, childVars,
                   stderrLines, closerVars, appVars, sendVars, ctlVars, childIn, panics>>

\* A parsed record of type control_response whose type assertions fail:
\* nothing is stored and the `continue` skips the safeSend.
OutDrop ==
    /\ Running
    /\ pc["out"] = "scan"
    /\ stdoutBuf # <<>>
    /\ ~TooLong(ScanLine(stdoutBuf))
    /\ ~Overflows(jsonBuffer + LineSize(ScanLine(stdoutBuf)))
    /\ Parses(jsonBuffer, ScanLine(stdoutBuf))
    /\ IsControlResponse(ScanLine(stdoutBuf)) /\ ~WellFormedCtl(ScanLine(stdoutBuf))
    /\ stdoutBuf' = Tail(stdoutBuf)
    /\ UNCHANGED <<cfgVars, auxVars, jsonBuffer, received, connected, mu, gen, ctxCancelled, procVars, stdin,
                   stdinChan, outVars, taskGroup, pending, pc, hold, promptIdx, ssVars, line,
                   stdoutCnt, stderrBuf, stderrCnt, stderrLines, closerVars, appVars,
                   sendVars, ctlVars, childIn, panics>>

\* scanner.Scan() returns false at end of stream; scanner.Err() is nil.
OutEOF ==
    /\ Running
    /\ pc["out"] = "scan"
    /\ stdoutBuf = <<>> /\ proc = "exited"
    /\ Goto("out", "done")
    /\ UNCHANGED <<cfgVars, auxVars, jsonBuffer, received, connected, mu, gen, ctxCancelled, procVars, stdin,
                   stdinChan, outVars, pending, hold, promptIdx, ssVars, line,
                   childVars, stderrLines, closerVars, appVars, sendVars, ctlVars,
                   childIn, panics>>

\* scanner.Scan() returns false on a read error: t.cmd.Wait() has returned
\* and closed the parent's end of the stdout pipe, so the read fails with
\* "file already closed" and what the child wrote and the scanner had not
\* yet read is lost.  Lines the scanner already holds are still returned
\* (OutScan), so after Wait either step can be the next one.
OutReadError ==
    /\ Running
    /\ pc["out"] = "scan"
    /\ waited
    /\ ssMsg' = [ssMsg EXCEPT !["out"] = ScanErrMsg]
    /\ Goto("out", "ss_read")
    /\ stdoutBuf' = <<>>
    /\ UNCHANGED <<cfgVars, auxVars, jsonBuffer, received, connected, mu, gen, ctxCancelled, procVars, stdin,
                   stdinChan, outVars, pending, hold, promptIdx, ssChan, line, stdoutCnt,
                   stderrBuf, stderrCnt, stderrLines, closerVars, appVars, sendVars,
                   ctlVars, childIn, panics>>

ReadOutput ==
    \/ OutScan \/ OutAccumulate \/ OutTooLong \/ OutReadError \/ OutStore \/ OutDrop \/ OutEOF
    \/ SafeSend("out")

\* ---- readStderr ----------------------------------------------------------
\* stderrBuf holds the lines the main loop has not received yet and still
\* can: those the scanner goroutine has put on stderrChan and, while that
\* goroutine runs, those in the pipe.
\* A limit that no line exceeds.
NeverExceeds(size, lineSize) == FALSE

\* if stderrSize+lineSize > maxStderrSize
ExceedsLimit(size, lineSize) == size + lineSize > maxStderrSize

\* case line := <-stderrChan: the line is stored, or, when it would take
\* the stored bytes over maxStderrSize, the truncation marker is appended
\* in its place and the loop that drains the rest is entered.
ErrLine ==
    /\ Running
    /\ pc["err"] = "run"
    /\ stderrBuf # <<>>
    /\ stderrBuf' = Tail(stderrBuf)
    /\ stderrLines' = stderrLines + 1
    /\ IF ExceedsLimit(stderrSize, Head(stderrBuf))
         THEN /\ stderrTrunc' = stderrTrunc + 1
              /\ Goto("err", "drain")
              /\ UNCHANGED stderrSize
         ELSE /\ stderrSize' = stderrSize + Head(stderrBuf)
              /\ UNCHANGED <<stderrTrunc, pc, taskGroup>>
    /\ UNCHANGED <<cfgVars, jsonKind, stderrDropped, errReader, recvChan, jsonBuffer, received, connected, mu, gen, ctxCancelled, procVars, stdin,
                   stdinChan, outVars, pending, hold, promptIdx,
                   ssVars, line, stdoutBuf, stdoutCnt, stderrCnt, closerVars, appVars,
                   sendVars, ctlVars, childIn, panics>>

\* Drain loop, case <-stderrChan: the line is received and not stored.
ErrDrain ==
    /\ Running
    /\ pc["err"] = "drain"
    /\ stderrBuf # <<>>
    /\ stderrBuf' = Tail(stderrBuf)
    /\ stderrDropped' = stderrDropped + 1
    /\ UNCHANGED <<cfgVars, jsonKind, stderrSize, stderrTrunc, errReader, recvChan, jsonBuffer, received, connected, mu, gen, ctxCancelled, procVars, stdin,
                   stdinChan, outVars, taskGroup, pending, pc, hold, promptIdx,
                   ssVars, line, stdoutBuf, stdoutCnt, stderrCnt, stderrLines, closerVars, appVars,
                   sendVars, ctlVars, childIn, panics>>

\* The scanner goroutine: for scanner.Scan() { select { case stderrChan <-
\* scanner.Text(): ; case <-t.ctx.Done(): return } }; close(done).  With the
\* context done and a line in hand the select may take the second case: the
\* goroutine returns without closing done, the line in hand and what the
\* pipe still holds are never put on stderrChan; what it had put there
\* before stays.
ErrReaderGone ==
    /\ Running
    /\ pc["err"] \in {"run", "drain"}
    /\ errReader = "run"
    /\ ctxCancelled
    /\ stderrBuf # <<>>
    /\ \E k \in 0..(Len(stderrBuf) - 1) : stderrBuf' = SubSeq(stderrBuf, 1, k)
    /\ errReader' = "gone"
    /\ UNCHANGED <<cfgVars, jsonKind, stderrSize, stderrTrunc, stderrDropped, recvChan, jsonBuffer, received, connected, mu, gen, ctxCancelled, procVars, stdin,
                   stdinChan, outVars, taskGroup, pending, pc, hold, promptIdx,
                   ssVars, line, stdoutBuf, stdoutCnt, stderrCnt, stderrLines, closerVars, appVars,
                   sendVars, ctlVars, childIn, panics>>

\* done is closed: the scanner goroutine reached the end of the stream,
\* which the pipe signals once the child has exited.
DoneClosed == proc = "exited" /\ errReader = "run"

\* A processStderr that takes every exit for a failure.
AssumedFailure == IF exitCode = 0 THEN 1 ELSE exitCode

\* processStderr: the exit code is read from cmd.ProcessState, which is nil
\* (exit code 0) until some cmd.Wait() has returned.
ObservedExitCode == IF waited THEN exitCode ELSE 0

\* case <-done: the scanner goroutine saw end of stream and closed done.
ErrDone ==
    /\ Running
    /\ pc["err"] = "run"
    /\ DoneClosed
    /\ IF stderrLines > 0 /\ ObservedExitCode # 0
         THEN /\ ssMsg' = [ssMsg EXCEPT !["err"] =
                              [k |-> "exit", code |-> ObservedExitCode,
                               lines |-> stderrLines]]
              /\ Goto("err", "ss_read")
         ELSE /\ Goto("err", "done")
              /\ UNCHANGED ssMsg
    /\ UNCHANGED <<cfgVars, auxVars, jsonBuffer, received, connected, mu, gen, ctxCancelled, procVars, stdin,
                   stdinChan, outVars, pending, hold, promptIdx, ssChan, line,
                   childVars, stderrLines, closerVars, appVars, sendVars, ctlVars,
                   childIn, panics>>

\* Drain loop, case <-done: processStderr runs on the lines stored and the
\* marker.
ErrDrainDone ==
    /\ Running
    /\ pc["err"] = "drain"
    /\ DoneClosed
    /\ IF ObservedExitCode # 0
         THEN /\ ssMsg' = [ssMsg EXCEPT !["err"] =
                              [k |-> "exit", code |-> ObservedExitCode,
                               lines |-> stderrLines]]
              /\ Goto("err", "ss_read")
         ELSE /\ Goto("err", "done")
              /\ UNCHANGED ssMsg
    /\ UNCHANGED <<cfgVars, auxVars, jsonBuffer, received, connected, mu, gen, ctxCancelled, procVars, stdin,
                   stdinChan, outVars, pending, hold, promptIdx, ssChan, line,
                   childVars, stderrLines, closerVars, appVars, sendVars, ctlVars,
                   childIn, panics>>

\* case <-timer.C: stderrTimeout has passed; a marker line is appended and
\* processStderr runs on the lines collected so far.
ErrTimeout ==
    /\ Running
    /\ pc["err"] = "run"
    /\ stderrLines' = stderrLines + 1
    /\ IF ObservedExitCode # 0
         THEN /\ ssMsg' = [ssMsg EXCEPT !["err"] =
                              [k |-> "exit", code |-> ObservedExitCode,
                               lines |-> stderrLines + 1]]
              /\ Goto("err", "ss_read")
         ELSE /\ Goto("err", "done")
              /\ UNCHANGED ssMsg
    /\ UNCHANGED <<cfgVars, auxVars, jsonBuffer, received, connected, mu, gen, ctxCancelled, procVars, stdin,
                   stdinChan, outVars, pending, hold, promptIdx, ssChan, line,
                   childVars, closerVars, appVars, sendVars, ctlVars,
                   childIn, panics>>

\* case <-t.ctx.Done(): return
ErrCancelled ==
    /\ Running
    /\ pc["err"] = "run"
    /\ ctxCancelled
    /\ Goto("err", "done")
    /\ UNCHANGED <<cfgVars, auxVars, jsonBuffer, received, connected, mu, gen, ctxCancelled, procVars, stdin,
                   stdinChan, outVars, pending, hold, promptIdx, ssVars, line,
                   childVars, stderrLines, closerVars, appVars, sendVars, ctlVars,
                   childIn, panics>>

ReadStderr ==
    \/ ErrLine \/ ErrDrain \/ ErrReaderGone \/ ErrDone \/ ErrDrainDone
    \/ ErrTimeout \/ ErrCancelled \/ SafeSend("err")

\* ---- ReceiveMessages -----------------------------------------------------
\* return t.outChan: the value of the field at the time of the call, nil
\* once the channel-closing goroutine has cleared it.
ReturnedChannel == outChan

\* A ReceiveMessages call; `ended` records that the outbound channel of the
\* connection had been closed before the call.
ReceiveMessagesCall ==
    /\ Running
    /\ gen > 0
    /\ Len(recvChan) < MaxCalls
    /\ recvChan' = Append(recvChan, [ch |-> ReturnedChannel, ended |-> outClosed[gen] > 0])
    /\ UNCHANGED <<cfgVars, jsonKind, errVars, jsonBuffer, received, connected, mu, gen, ctxCancelled, procVars, stdin,
                   stdinChan, outVars, taskGroup, pending, pc, hold,
                   promptIdx, ssVars, line, childVars, stderrLines, closerVars, appVars,
                   sendVars, ctlVars, childIn, panics>>

\* A receive on channel ch completes: a message is buffered or the channel
\* is closed.  A receive on a nil channel never completes.
ReceiveCompletes(ch) == ch # Nil /\ (outBuf[ch] # <<>> \/ outClosed[ch] > 0)

\* ---- IsConnected ---------------------------------------------------------
\* return t.connected && t.cmd != nil && t.cmd.Process != nil: t.cmd is set
\* and its Process started from the first successful Connect on.
IsConnected == connected /\ gen > 0 /\ proc # "notstarted"

\* ---- SendRequest ---------------------------------------------------------
\* SendRequest without its connected check.
AssumeConnected == FALSE

\* connected is read under RLock; if !connected { return "Not connected" }
NotConnected == ~connected

\* The caller submits SendRec(1), SendRec(2), ... over one or more calls.
\* !isStreaming returns before the lock; connected is read under RLock.
SendBegin ==
    /\ Running
    /\ sendPc = "idle"
    /\ sendIdx < NumRecs
    /\ isStreaming => mu = "free"
    /\ IF ~isStreaming THEN sendRes' = "not_streaming" /\ UNCHANGED sendPc
       ELSE IF NotConnected THEN sendRes' = "not_connected" /\ UNCHANGED sendPc
       ELSE sendRes' = "none" /\ sendPc' = "select"
    /\ UNCHANGED <<cfgVars, auxVars, jsonBuffer, received, connected, mu, gen, ctxCancelled, procVars, stdin,
                   stdinChan, outVars, taskGroup, pending, pc, hold, promptIdx,
                   ssVars, line, childVars, stderrLines, closerVars, appVars, sendIdx,
                   ctlVars, childIn, panics>>

\* select { case t.stdinChan <- line: ; case <-ctx.Done(): return ctx.Err() }
\* After the last record of the call the loop ends and nil is returned.
SendEnqueue ==
    /\ Running
    /\ sendPc = "select"
    /\ ChanSend(Line(SendRec(sendIdx + 1)))
    /\ IF stdinChan.st = "closed"
         THEN UNCHANGED <<sendIdx, sendPc, sendRes>>
         ELSE /\ sendIdx' = sendIdx + 1
              /\ \/ UNCHANGED <<sendPc, sendRes>> /\ sendIdx + 1 < NumRecs
                 \/ sendPc' = "idle" /\ sendRes' = "nil"
    /\ UNCHANGED <<cfgVars, auxVars, jsonBuffer, received, connected, mu, gen, ctxCancelled, procVars, stdin,
                   outVars, taskGroup, pending, pc, hold, promptIdx, ssVars, line,
                   childVars, stderrLines, closerVars, appVars, ctlVars, childIn>>

SendCancelled ==
    /\ Running
    /\ sendPc = "select"
    /\ sendPc' = "idle"
    /\ sendRes' = "ctx_err"
    /\ UNCHANGED <<cfgVars, auxVars, jsonBuffer, received, connected, mu, gen, ctxCancelled, procVars, stdin,
                   stdinChan, outVars, taskGroup, pending, pc, hold, promptIdx,
                   ssVars, line, childVars, stderrLines, closerVars, appVars, sendIdx,
                   ctlVars, childIn, panics>>

SendRequest == SendBegin \/ SendEnqueue \/ SendCancelled

\* ---- sendControlRequest --------------------------------------------------
\* The counter read without being advanced.
SameCounter(n) == n

\* atomic.AddUint64(&t.requestCounter, 1)
NextCounter(n) == n + 1

Active(c) == ctl[c].pc \in {"enq", "poll", "rlock", "del"}

\* Under t.mu.Lock(): fail when stdin is nil or the transport is not
\* connected, otherwise take the next counter value and build the id.
CtlBegin(c) ==
    /\ Running
    /\ ctl[c].pc = "idle"
    /\ mu = "free"
    /\ IF stdin = "nil" \/ ~connected
         THEN /\ ctl' = [ctl EXCEPT ![c].res = "conn_err", ![c].resp = NoMsg, ![c].id = <<>>]
              /\ UNCHANGED <<issued, requestCounter, clock>>
         ELSE /\ requestCounter < MaxReq
              /\ requestCounter' = NextCounter(requestCounter)
              /\ \E t \in clock..MaxClock :
                   /\ clock' = t
                   /\ ctl' = [ctl EXCEPT ![c] = [pc |-> "enq", res |-> "none", resp |-> NoMsg,
                                                 id |-> FormatID(requestCounter', t)]]
                   /\ issued' = Append(issued, [id |-> FormatID(requestCounter', t), conn |-> gen])
    /\ UNCHANGED <<cfgVars, auxVars, jsonBuffer, received, connected, mu, gen, ctxCancelled, procVars, stdin,
                   stdinChan, outVars, taskGroup, pending, pc, hold, promptIdx,
                   ssVars, line, childVars, stderrLines, closerVars, appVars, sendVars,
                   childIn, panics>>

\* select { case t.stdinChan <- line: ; case <-ctx.Done(): }: the send.
CtlEnqueue(c) ==
    /\ Running
    /\ ctl[c].pc = "enq"
    /\ ChanSend(Line(CtlRec(ctl[c].id)))
    /\ ctl' = [ctl EXCEPT ![c].pc = "poll"]
    /\ UNCHANGED <<cfgVars, auxVars, jsonBuffer, received, connected, mu, gen, ctxCancelled, procVars, stdin,
                   outVars, taskGroup, pending, pc, hold, promptIdx, ssVars, line,
                   childVars, stderrLines, closerVars, appVars, sendVars, issued,
                   requestCounter, clock, childIn>>

\* case <-ctx.Done() of either select: return ctx.Err().
CtlCancelled(c) ==
    /\ Running
    /\ ctl[c].pc \in {"enq", "poll"}
    /\ ctl' = [ctl EXCEPT ![c].pc = "idle", ![c].res = "ctx_err"]
    /\ UNCHANGED <<cfgVars, auxVars, jsonBuffer, received, connected, mu, gen, ctxCancelled, procVars, stdin,
                   stdinChan, outVars, taskGroup, pending, pc, hold, promptIdx,
                   ssVars, line, childVars, stderrLines, closerVars, appVars, sendVars,
                   issued, requestCounter, clock, childIn, panics>>

\* A caller taking whatever response is in the table.
LookupAny(tbl, id) == tbl

\* response, found := t.pendingControlResponses[requestID]
Lookup(tbl, id) == {e \in tbl : e.key = id}

\* case <-ticker.C with the entry present: read under RLock.
CtlPoll(c) ==
    /\ Running
    /\ ctl[c].pc = "poll"
    /\ mu = "free"
    /\ \E e \in Lookup(pending, ctl[c].id) :
         ctl' = [ctl EXCEPT ![c].pc = "del", ![c].resp = e.resp]
    /\ UNCHANGED <<cfgVars, auxVars, jsonBuffer, received, connected, mu, gen, ctxCancelled, procVars, stdin,
                   stdinChan, outVars, taskGroup, pending, pc, hold, promptIdx,
                   ssVars, line, childVars, stderrLines, closerVars, appVars, sendVars,
                   issued, requestCounter, clock, childIn, panics>>

\* case <-ticker.C while t.mu is write-held: the caller is inside
\* t.mu.RLock() and no longer in the select that watches ctx.Done().
CtlTickBlocked(c) ==
    /\ Running
    /\ ctl[c].pc = "poll"
    /\ mu # "free"
    /\ ctl' = [ctl EXCEPT ![c].pc = "rlock"]
    /\ UNCHANGED <<cfgVars, auxVars, jsonBuffer, received, connected, mu, gen, ctxCancelled, procVars, stdin,
                   stdinChan, outVars, taskGroup, pending, pc, hold, promptIdx,
                   ssVars, line, childVars, stderrLines, closerVars, appVars, sendVars,
                   issued, requestCounter, clock, childIn, panics>>

\* t.mu.RLock() returns: the lookup, then back to the select when the entry
\* is not there.
CtlPollLocked(c) ==
    /\ Running
    /\ ctl[c].pc = "rlock"
    /\ mu = "free"
    /\ IF Lookup(pending, ctl[c].id) # {}
         THEN \E e \in Lookup(pending, ctl[c].id) :
                ctl' = [ctl EXCEPT ![c].pc = "del", ![c].resp = e.resp]
         ELSE ctl' = [ctl EXCEPT ![c].pc = "poll"]
    /\ UNCHANGED <<cfgVars, auxVars, jsonBuffer, received, connected, mu, gen, ctxCancelled, procVars, stdin,
                   stdinChan, outVars, taskGroup, pending, pc, hold, promptIdx,
                   ssVars, line, childVars, stderrLines, closerVars, appVars, sendVars,
                   issued, requestCounter, clock, childIn, panics>>

\* subtype == "error" and the "error" field is a string: CLIConnectionError;
\* every other response is returned with a nil error.
ControlResult(resp) ==
    IF resp.subtype = "error" /\ resp.hasErr THEN "failed" ELSE "ok"

\* delete(t.pendingControlResponses, requestID) under Lock, then return.
CtlDelete(c) ==
    /\ Running
    /\ ctl[c].pc = "del"
    /\ mu = "free"
    /\ pending' = {e \in pending : e.key # ctl[c].id}
    /\ ctl' = [ctl EXCEPT ![c].pc = "idle", ![c].res = ControlResult(ctl[c].resp)]
    /\ UNCHANGED <<cfgVars, auxVars, jsonBuffer, received, connected, mu, gen, ctxCancelled, procVars, stdin,
                   stdinChan, outVars, taskGroup, hold, pc, promptIdx,
                   ssVars, line, childVars, stderrLines, closerVars, appVars, sendVars,
                   issued, requestCounter, clock, childIn, panics>>

\* ---- Interrupt -----------------------------------------------------------
\* Streaming mode: Interrupt is sendControlRequest with {"subtype": "interrupt"}.
InterruptStreaming(c) == isStreaming /\ CtlBegin(c)

\* String mode: cmd := t.cmd under RLock; "Not connected" when cmd or
\* cmd.Process is nil, otherwise the result of cmd.Process.Signal(SIGINT):
\* os.ErrProcessDone once the process has been waited for, nil when the
\* signal was sent.
InterruptString(c) ==
    /\ Running
    /\ ~isStreaming
    /\ ctl[c].pc = "idle"
    /\ mu = "free"
    /\ ctl' = [ctl EXCEPT ![c].resp = NoMsg, ![c].id = <<>>,
                          ![c].res = IF gen = 0 \/ proc = "notstarted" THEN "conn_err"
                                     ELSE IF proc = "exited" /\ waited THEN "process_done"
                                     ELSE "signalled"]
    /\ UNCHANGED <<cfgVars, auxVars, jsonBuffer, received, connected, mu, gen, ctxCancelled, procVars, stdin,
                   stdinChan, outVars, taskGroup, pending, pc, hold, promptIdx,
                   ssVars, line, childVars, stderrLines, closerVars, appVars, sendVars,
                   issued, requestCounter, clock, childIn, panics>>

Interrupt(c) == InterruptStreaming(c) \/ InterruptString(c)

Control(c) ==
    \/ InterruptString(c)
    \/ CtlBegin(c) \/ CtlEnqueue(c) \/ CtlCancelled(c) \/ CtlPoll(c)
    \/ CtlTickBlocked(c) \/ CtlPollLocked(c) \/ CtlDelete(c)

\* ---- Query (the one-shot API over Client) --------------------------------
\* Query connects a new Client and starts a goroutine that forwards
\* client.ReceiveMessages(ctx) to the channel it returns, stops after an
\* error or a ResultMessage, then runs the deferred client.Disconnect() and
\* close(out).  Client.ReceiveMessages is itself a goroutine that forwards
\* the transport's outbound channel and stops after an error.  Both forward
\* over unbuffered channels to a consumer that keeps receiving, so one
\* receive from the transport's channel stands for the whole relay, and
\* received[gen] is what the consumer of Query's channel has got.
IsErrorMsg(m) == m.k \in {"err", "scan_err", "exit"}

\* A loop that takes no message for a ResultMessage.
NeverResultMsg(m) == FALSE

\* _, ok := msg.Message.(*ResultMessage): parseMessage builds a
\* ResultMessage from a record of type "result".
IsResultMsg(m) == m.k = "data" /\ m.v.type = "result"
Unread(m) == [k |-> "unread", m |-> m]

\* Query's loop has ended: it forwarded an error or a ResultMessage, or the
\* channel it ranges over was closed.
QueryLoopDone ==
    /\ gen > 0
    /\ \E i \in 1..Len(received[gen]) :
          LET m == received[gen][i] IN IsErrorMsg(m) \/ IsResultMsg(m) \/ m = ClosedMark

\* The context passed to Query is cancelled or expires: t.ctx, derived from
\* it in Connect, is done.
QueryCtxCancelled ==
    /\ Running
    /\ gen > 0 /\ ~callCtxDone
    /\ callCtxDone' = TRUE
    /\ ctxCancelled' = TRUE
    /\ UNCHANGED <<envVars, auxVars, jsonBuffer, received, connected, mu, gen, procVars, stdin,
                   stdinChan, outVars, taskGroup, pending, pc, hold, promptIdx, ssVars,
                   line, childVars, stderrLines, closerVars, appVars, sendVars, ctlVars,
                   childIn, panics>>

\* for msg := range client.ReceiveMessages(ctx) { out <- msg; ... }
QueryRecv == ~QueryLoopDone /\ gen > 0 /\ ConsumerCollect(gen)

\* The transport closed its outbound channel: both range loops end.
QuerySeesClosed == ~QueryLoopDone /\ gen > 0 /\ ConsumerSeesClosed(gen)

\* After a ResultMessage Query's goroutine has returned but the goroutine of
\* Client.ReceiveMessages still ranges: it takes one more message from the
\* transport and blocks for ever handing it on.
QueryRelayLeftover ==
    /\ Running
    /\ gen > 0
    /\ Len(SelectSeq(received[gen], LAMBDA m : m.k = "unread"))
         < Len(SelectSeq(received[gen], IsResultMsg))
    /\ outBuf[gen] # <<>>
    /\ outBuf' = [outBuf EXCEPT ![gen] = Tail(@)]
    /\ received' = [received EXCEPT ![gen] = Append(@, Unread(Head(outBuf[gen])))]
    /\ UNCHANGED <<cfgVars, auxVars, jsonBuffer, connected, mu, gen, ctxCancelled, procVars, stdin,
                   stdinChan, outChan, outClosed, taskGroup, pending, pc, hold,
                   promptIdx, ssVars, line, childVars, stderrLines, closerVars, appVars,
                   sendVars, ctlVars, childIn, panics>>

\* defer client.Disconnect(): runs when the loop has ended.  Client.Disconnect
\* calls the transport's Disconnect; close(out) follows its return.
QueryDisconnect == QueryLoopDone /\ (DisconnectBegin \/ DisconnectNoop)

\* The channel Query returned has been closed.
QueryClosed == appRes \in {"disc_done", "disc_noop"}

\* ---- Client.ReceiveResponse ----------------------------------------------
\* A goroutine that forwards client.ReceiveMessages(ctx) to the channel the
\* call returns and returns, closing that channel, after it has forwarded a
\* ResultMessage or when its input is closed; its input is closed by the
\* goroutine of Client.ReceiveMessages after an error or when the transport
\* closes its outbound channel.  received[gen] is what the consumer of the
\* returned channel has got, ClosedMark included.
\* A later ReceiveResponse call is marked in received[gen] where it is made.
CallMark == [k |-> "call"]

\* What the channel of the latest ReceiveResponse call has yielded.
RECURSIVE CurrentCall(_)
CurrentCall(msgs) ==
    IF \A i \in 1..Len(msgs) : msgs[i] # CallMark THEN msgs
    ELSE CurrentCall(Tail(msgs))

ResponseOpen ==
    /\ gen > 0
    /\ \A i \in 1..Len(CurrentCall(received[gen])) :
          CurrentCall(received[gen])[i] # ClosedMark

\* The loop has forwarded a message after which no more is forwarded.
ResponseEnded ==
    \E i \in 1..Len(CurrentCall(received[gen])) :
        \/ IsErrorMsg(CurrentCall(received[gen])[i])
        \/ IsResultMsg(CurrentCall(received[gen])[i])

\* for msg := range messages { out <- msg; ... }
ResponseRecv == ResponseOpen /\ ~ResponseEnded /\ ConsumerCollect(gen)

\* return after a ResultMessage, or the range ends after an error: the
\* deferred close(out) runs.
ResponseClose ==
    /\ Running
    /\ ResponseOpen /\ ResponseEnded
    /\ received' = [received EXCEPT ![gen] = Append(@, ClosedMark)]
    /\ UNCHANGED <<cfgVars, auxVars, jsonBuffer, connected, mu, gen, ctxCancelled, procVars, stdin,
                   stdinChan, outVars, taskGroup, pending, pc, hold,
                   promptIdx, ssVars, line, childVars, stderrLines, closerVars, appVars,
                   sendVars, ctlVars, childIn, panics>>

\* The transport closed its outbound channel: both range loops end.
ResponseSeesClosed == ResponseOpen /\ ~ResponseEnded /\ ConsumerSeesClosed(gen)

\* ReceiveResponse is called again after its last channel was closed behind
\* a ResultMessage: a new pair of goroutines and channels.  The goroutine
\* of Client.ReceiveMessages that the earlier call started is still there
\* (QueryRelayLeftover).
ResponseCall ==
    /\ Running
    /\ gen > 0 /\ received[gen] # <<>>
    /\ ~ResponseOpen /\ ResponseEnded
    /\ \E i \in 1..Len(CurrentCall(received[gen])) : IsResultMsg(CurrentCall(received[gen])[i])
    /\ Len(SelectSeq(received[gen], LAMBDA m : m = CallMark)) < MaxCalls
    /\ received' = [received EXCEPT ![gen] = Append(@, CallMark)]
    /\ UNCHANGED <<cfgVars, auxVars, jsonBuffer, connected, mu, gen, ctxCancelled, procVars, stdin,
                   stdinChan, outVars, taskGroup, pending, pc, hold,
                   promptIdx, ssVars, line, childVars, stderrLines, closerVars, appVars,
                   sendVars, ctlVars, childIn, panics>>

ReceiveResponse ==
    \/ ResponseRecv \/ ResponseClose \/ ResponseSeesClosed \/ QueryRelayLeftover
    \/ ResponseCall

\* ---- the specification ---------------------------------------------------
Next ==
    \/ Connect
    \/ Disconnect
    \/ \E g \in Gens : Closer(g)
    \/ Child
    \/ \E c \in Gens : ConsumerRecv(c)
    \/ HandleStdin
    \/ StreamToStdin
    \/ ReadOutput
    \/ ReadStderr
    \/ SendRequest
    \/ \E c \in Callers : Control(c)
    \/ ReceiveMessagesCall

Spec == Init /\ [][Next]_vars

\* ---- scenario: lifecycle -------------------------------------------------
\* One connection in depth: Connect / Disconnect against the four pumps, the
\* channel-closing goroutine, the child and the consumer.  Nobody calls
\* SendRequest or sendControlRequest, so the child has no control request to
\* answer.
NextLife ==
    \/ ConnectAlready \/ ConnectLaunchFails(OneConn) \/ ConnectOK(OneConn)
    \/ DisconnectNoop \/ DisconnectBegin \/ DisconnectProcDone
    \/ DisconnectTimeout \/ DisconnectReturn
    \/ \E g \in Gens : CloserStart(g) \/ CloserProcDone(g) \/ CloserTasksDone(g) \/ CloserClose(g)
    \/ ChildWriteStdout \/ ChildWriteStderr \/ ChildExit
    \/ \E c \in Gens : ConsumerRecv(c)
    \/ StdinRecv \/ StdinChanEnd \/ StdinWrite
    \/ PromptNext \/ PromptEnqueue \/ PromptCancelled \/ PromptCloseStdin
    \/ OutScan \/ OutEOF
    \/ ErrLine \/ ErrDone \/ ErrCancelled
    \/ \E p \in {"in", "out", "err"} : SafeSendRead(p) \/ SafeSendDeliver(p) \/ SafeSendCancelled(p)

SpecLife == Init /\ [][NextLife]_vars

\* ---- scenario: reconnect -------------------------------------------------
\* Connect, Disconnect and Connect again on one transport: the goroutines of
\* the earlier connection against the later one.  The child writes stdout
\* lines but nothing to stderr, and the prompt source is already exhausted.
InitReconn == InitCfg(BOOLEAN, BOOLEAN, NumPrompt)

NextReconn ==
    \/ ConnectAlready \/ ConnectOK(MaxConns)
    \/ DisconnectNoop \/ DisconnectBegin \/ DisconnectProcDone
    \/ DisconnectTimeout \/ DisconnectReturn
    \/ \E g \in Gens : CloserStart(g) \/ CloserProcDone(g) \/ CloserTasksDone(g) \/ CloserClose(g)
    \/ ChildWriteStdout \/ ChildExit
    \/ \E c \in Gens : ConsumerRecv(c)
    \/ StdinChanEnd
    \/ PromptNext \/ PromptCloseStdin
    \/ OutScan \/ OutEOF
    \/ ErrDone \/ ErrCancelled
    \/ \E p \in {"out"} : SafeSendRead(p) \/ SafeSendDeliver(p) \/ SafeSendCancelled(p)

SpecReconn == InitReconn /\ [][NextReconn]_vars

\* ---- scenario: senders ---------------------------------------------------
\* Streaming mode, one connection: the SendRequest caller and the
\* prompt-source pump write to the send queue while Connect and Disconnect
\* run.  The child writes nothing.
InitSend == InitCfg({TRUE}, BOOLEAN, 0)

NextSend ==
    \/ ConnectAlready \/ ConnectOK(OneConn)
    \/ DisconnectNoop \/ DisconnectBegin \/ DisconnectProcDone
    \/ DisconnectTimeout \/ DisconnectReturn
    \/ \E g \in Gens : CloserStart(g) \/ CloserProcDone(g) \/ CloserTasksDone(g) \/ CloserClose(g)
    \/ ChildExit
    \/ \E c \in Gens : ConsumerRecv(c)
    \/ StdinRecv \/ StdinChanEnd \/ StdinWrite
    \/ PromptNext \/ PromptEnqueue \/ PromptCancelled \/ PromptCloseStdin
    \/ OutEOF
    \/ ErrDone \/ ErrCancelled
    \/ \E p \in {"in"} : SafeSendRead(p) \/ SafeSendDeliver(p) \/ SafeSendCancelled(p)
    \/ SendBegin \/ SendEnqueue \/ SendCancelled

SpecSend == InitSend /\ [][NextSend]_vars

\* ---- scenario: record shapes ---------------------------------------------
\* Streaming mode, one connection that stays up: the SendRequest caller
\* passes records with and without "type" and "session_id" keys, metadata
\* with and without a session id, and handleStdin writes them to the child.
InitShapes == InitArgs({TRUE}, {FALSE}, NumPrompt, MsgShapes, Metas)

NextShapes ==
    \/ ConnectOK(OneConn)
    \/ \E g \in Gens : CloserStart(g)
    \/ StdinRecv \/ StdinWrite
    \/ PromptNext
    \/ SendBegin \/ SendEnqueue \/ SendCancelled

SpecShapes == InitShapes /\ [][NextShapes]_vars

\* The same scenario in either mode: in string mode Connect starts no stdin
\* pump and every SendRequest call is refused.
SpecSendAny == Init /\ [][NextSend]_vars

\* ---- scenario: control requests -----------------------------------------
\* Streaming mode with an exhausted prompt source (interactive use), one
\* connection that is never disconnected: two callers issue control
\* requests, the child answers the requests it has read, in any order and
\* mixed with domain records, and may exit.
InitCtl == InitCfg({TRUE}, {FALSE}, NumPrompt)

NextCtl ==
    \/ ConnectOK(OneConn)
    \/ \E g \in Gens : CloserStart(g) \/ CloserProcDone(g)
    \/ ChildWriteStdout \/ ChildExit
    \/ \E c \in Gens : ConsumerRecv(c)
    \/ StdinRecv \/ StdinWrite
    \/ PromptNext
    \/ OutScan \/ OutStore \/ OutEOF
    \/ ErrDone
    \/ \E p \in {"in", "out"} : SafeSendRead(p) \/ SafeSendDeliver(p)
    \/ \E c \in Callers : CtlBegin(c) \/ CtlEnqueue(c) \/ CtlCancelled(c) \/ CtlPoll(c) \/ CtlDelete(c)

SpecCtl == InitCtl /\ [][NextCtl]_vars

\* ---- scenario: request ids across reconnects ----------------------------
\* Two callers issue control requests while the transport is connected,
\* disconnected and connected again.  Their contexts expire before the
\* request is queued, so the child reads and answers nothing.
NextIds ==
    \/ ConnectOK(MaxConns)
    \/ DisconnectBegin \/ DisconnectProcDone \/ DisconnectTimeout \/ DisconnectReturn
    \/ \E g \in Gens : CloserStart(g) \/ CloserProcDone(g) \/ CloserTasksDone(g) \/ CloserClose(g)
    \/ ChildExit
    \/ StdinChanEnd
    \/ PromptNext
    \/ OutEOF
    \/ ErrDone \/ ErrCancelled
    \/ \E c \in Callers : CtlBegin(c) \/ CtlCancelled(c)

SpecIds == InitCtl /\ [][NextIds]_vars

\* ---- scenario: Interrupt against a live child ---------------------------
\* Streaming mode, interactive use, the child stays alive and follows the
\* protocol (one response per request it has read); the callers pass a
\* context that is never cancelled.  The pumps and the callers are
\* goroutines the Go scheduler runs whenever they can take a step, and the
\* caller's ticker keeps firing: weak fairness on each of their steps.
NextInterrupt ==
    \/ ConnectOK(OneConn)
    \/ \E g \in Gens : CloserStart(g)
    \/ ChildWriteDomain \/ ChildAnswer
    \/ \E c \in Gens : ConsumerRecv(c)
    \/ StdinRecv \/ StdinWrite
    \/ PromptNext
    \/ OutScan \/ OutStore
    \/ \E p \in {"out"} : SafeSendRead(p) \/ SafeSendDeliver(p)
    \/ \E c \in Callers : CtlBegin(c) \/ CtlEnqueue(c) \/ CtlPoll(c) \/ CtlDelete(c)

FairInterrupt ==
    /\ WF_vars(OutStore)
    /\ \A c \in Callers : WF_vars(CtlPoll(c)) /\ WF_vars(CtlDelete(c))

SpecInterrupt == InitCtl /\ [][NextInterrupt]_vars /\ FairInterrupt

\* ---- scenario: routing of parsed records ---------------------------------
\* Streaming mode with an exhausted prompt source, one connection that stays
\* up: the child writes domain records, answers to the control requests it
\* has read, and control_response records that are not well formed; the
\* consumer keeps what it receives.
NextRoute ==
    \/ ConnectOK(OneConn)
    \/ \E g \in Gens : CloserStart(g)
    \/ ChildWriteStdout \/ ChildWriteMalformed
    \/ \E c \in Gens : ConsumerCollect(c)
    \/ StdinRecv \/ StdinWrite
    \/ PromptNext
    \/ OutScan \/ OutStore \/ OutDrop
    \/ \E p \in {"out"} : SafeSendRead(p) \/ SafeSendDeliver(p)
    \/ \E c \in Callers : CtlBegin(c) \/ CtlEnqueue(c) \/ CtlPoll(c) \/ CtlDelete(c)

SpecRoute == InitCtl /\ [][NextRoute]_vars

\* ---- scenario: shutdown of a well-behaved child --------------------------
\* One connection in either mode, prompt source exhausted.  The child writes
\* domain records and exits cleanly when it reads end of stream on its
\* stdin; otherwise it ends only by being killed.
NextGrace ==
    \/ ConnectOK(OneConn)
    \/ DisconnectBegin \/ DisconnectProcDone \/ DisconnectTimeout \/ DisconnectReturn
    \/ \E g \in Gens : CloserStart(g) \/ CloserProcDone(g) \/ CloserTasksDone(g) \/ CloserClose(g)
    \/ ChildWriteDomain \/ ChildExitOnEOF \/ ContextKill \/ TimeoutKill
    \/ \E c \in Gens : ConsumerRecv(c)
    \/ StdinChanEnd
    \/ PromptNext \/ PromptCloseStdin
    \/ OutScan \/ OutReadError \/ OutEOF
    \/ ErrDone \/ ErrCancelled
    \/ \E p \in {"out"} : SafeSendRead(p) \/ SafeSendDeliver(p) \/ SafeSendCancelled(p)

SpecGrace == InitReconn /\ [][NextGrace]_vars

\* ---- scenario: launch failures --------------------------------------------
\* Connect attempts in either mode where the working directory or the
\* executable may be missing, and where cmd.Start() may fail for another
\* reason; connections that do start are disconnected again.
InitLaunch == InitEnv(BOOLEAN, {FALSE}, NumPrompt, {TypedShape}, {"with_sid"}, Cwds, BOOLEAN)

NextLaunch ==
    \/ ConnectAlready \/ ConnectLaunchFails(MaxConns) \/ ConnectOK(MaxConns)
    \/ DisconnectNoop \/ DisconnectBegin \/ DisconnectProcDone
    \/ DisconnectTimeout \/ DisconnectReturn
    \/ \E g \in Gens : CloserStart(g) \/ CloserProcDone(g) \/ CloserTasksDone(g) \/ CloserClose(g)
    \/ ChildExit
    \/ StdinChanEnd
    \/ PromptNext
    \/ OutEOF
    \/ ErrDone \/ ErrCancelled

SpecLaunch == InitLaunch /\ [][NextLaunch]_vars

\* ---- scenario: Interrupt in either mode -----------------------------------
\* One connection in string or streaming mode, prompt source exhausted: two
\* callers invoke Interrupt before Connect, while connected and after
\* Disconnect.  The child answers nothing.
NextSignal ==
    \/ ConnectOK(OneConn) \/ ConnectLaunchFails(OneConn)
    \/ DisconnectBegin \/ DisconnectProcDone \/ DisconnectTimeout \/ DisconnectReturn
    \/ \E g \in Gens : CloserStart(g) \/ CloserProcDone(g) \/ CloserTasksDone(g) \/ CloserClose(g)
    \/ ChildExit
    \/ StdinChanEnd
    \/ PromptNext
    \/ OutEOF
    \/ ErrDone \/ ErrCancelled
    \/ \E c \in Callers : InterruptStreaming(c) \/ InterruptString(c)
                            \/ CtlEnqueue(c) \/ CtlCancelled(c)

SpecSignal == InitReconn /\ [][NextSignal]_vars

\* ---- scenario: Query ------------------------------------------------------
\* Query with a string prompt (string mode) or a message stream (streaming
\* mode).  The child writes assistant and result messages and stderr lines
\* and exits on its own or is killed when the context is done; the caller
\* may cancel the context at any time.
NextQuery ==
    \/ ConnectOK(OneConn)
    \/ QueryCtxCancelled
    \/ QueryRecv \/ QuerySeesClosed \/ QueryRelayLeftover
    \/ QueryDisconnect \/ DisconnectProcDone \/ DisconnectTimeout \/ DisconnectReturn
    \/ \E g \in Gens : CloserStart(g) \/ CloserProcDone(g) \/ CloserTasksDone(g) \/ CloserClose(g)
    \/ ChildWriteAssistant \/ ChildWriteDomain \/ ChildExit \/ ContextKill \/ TimeoutKill
    \/ StdinRecv \/ StdinChanEnd \/ StdinWrite
    \/ PromptNext \/ PromptEnqueue \/ PromptCancelled
    \/ OutScan \/ OutReadError \/ OutEOF
    \/ ErrDone \/ ErrCancelled
    \/ \E p \in {"in", "out"} : SafeSendRead(p) \/ SafeSendDeliver(p) \/ SafeSendCancelled(p)

InitQuery == InitCfg(BOOLEAN, {FALSE}, 0)

SpecQuery == InitQuery /\ [][NextQuery]_vars

\* ---- scenario: ReceiveResponse --------------------------------------------
\* One connection in either mode that nobody disconnects, prompt source
\* exhausted: the child writes assistant and result messages in any order
\* and may exit; one ReceiveResponse call forwards them.
NextResponse ==
    \/ ConnectOK(OneConn)
    \/ \E g \in Gens : CloserStart(g) \/ CloserProcDone(g) \/ CloserTasksDone(g) \/ CloserClose(g)
    \/ ChildWriteAssistant \/ ChildWriteDomain \/ ChildExit
    \/ ResponseRecv \/ ResponseClose \/ ResponseSeesClosed \/ QueryRelayLeftover
    \/ PromptNext
    \/ OutScan \/ OutReadError \/ OutEOF
    \/ ErrDone
    \/ \E p \in {"out"} : SafeSendRead(p) \/ SafeSendDeliver(p)

SpecResponse == InitReconn /\ [][NextResponse]_vars

\* ---- scenario: ReceiveResponse called again -------------------------------
\* The same with further ReceiveResponse calls once the channel of the last
\* one was closed behind a ResultMessage.
NextAgain == NextResponse \/ ResponseCall

SpecAgain == InitReconn /\ [][NextAgain]_vars

\* ---- scenario: cancelling a blocked control request ---------------------
\* Streaming mode with an exhausted prompt source, one connection: two
\* callers issue control requests, the child answers each request once and
\* writes nothing else, the callers' contexts may be cancelled at any time,
\* and Disconnect may run.
NextCancel ==
    \/ ConnectOK(OneConn)
    \/ DisconnectBegin \/ DisconnectProcDone \/ DisconnectTimeout \/ DisconnectReturn
    \/ \E g \in Gens : CloserStart(g) \/ CloserProcDone(g) \/ CloserTasksDone(g) \/ CloserClose(g)
    \/ ChildAnswer \/ ChildExit
    \/ \E c \in Gens : ConsumerRecv(c)
    \/ StdinRecv \/ StdinChanEnd \/ StdinWrite
    \/ PromptNext
    \/ OutScan \/ OutStore \/ OutEOF
    \/ ErrDone \/ ErrCancelled
    \/ \E p \in {"in"} : SafeSendRead(p) \/ SafeSendDeliver(p) \/ SafeSendCancelled(p)
    \/ \E c \in Callers :
          \/ CtlBegin(c) \/ CtlEnqueue(c) \/ CtlCancelled(c) \/ CtlPoll(c)
          \/ CtlTickBlocked(c) \/ CtlPollLocked(c) \/ CtlDelete(c)

SpecCancel == InitCtl /\ [][NextCancel]_vars

\* ---- scenario: what the child writes to stdout --------------------------
\* String mode, one connection, a child that stays alive and writes whole
\* records and lines of junk of every size up to one byte over the
\* scanner's buffer; the consumer keeps what it receives.
InitScan == InitCfg({FALSE}, {FALSE}, NumPrompt)

NextScan ==
    \/ ConnectOK(OneConn)
    \/ \E g \in Gens : CloserStart(g)
    \/ ChildWriteDomain \/ ChildWriteRaw
    \/ \E c \in Gens : ConsumerCollect(c)
    \/ OutScan \/ OutAccumulate \/ OutTooLong
    \/ \E p \in {"out"} : SafeSendRead(p) \/ SafeSendDeliver(p)

SpecScan == InitScan /\ [][NextScan]_vars

\* ---- scenario: the child's exit ------------------------------------------
\* String mode, one connection: the child writes records and stderr lines
\* and exits with any status; the stderr timer may fire; Disconnect may run;
\* the consumer keeps what it receives and sees the channel close.
NextExit ==
    \/ ConnectOK(OneConn)
    \/ DisconnectBegin \/ DisconnectProcDone \/ DisconnectTimeout \/ DisconnectReturn
    \/ \E g \in Gens : CloserStart(g) \/ CloserProcDone(g) \/ CloserTasksDone(g) \/ CloserClose(g)
    \/ ChildWriteDomain \/ ChildWriteStderr \/ ChildExit
    \/ \E c \in Gens : ConsumerCollect(c) \/ ConsumerSeesClosed(c)
    \/ OutScan \/ OutReadError \/ OutEOF
    \/ ErrLine \/ ErrDone \/ ErrTimeout \/ ErrCancelled
    \/ \E p \in {"out", "err"} : SafeSendRead(p) \/ SafeSendDeliver(p) \/ SafeSendCancelled(p)

SpecExit == InitScan /\ [][NextExit]_vars

\* ---- scenario: the child fails within the stderr timeout -----------------
\* One string-mode connection that nobody disconnects; the child writes to
\* stdout and stderr and exits before stderrTimeout has passed.
NextFail ==
    \/ ConnectOK(OneConn)
    \/ \E g \in Gens : CloserStart(g) \/ CloserProcDone(g) \/ CloserTasksDone(g) \/ CloserClose(g)
    \/ ChildWriteDomain \/ ChildWriteStderr \/ ChildExit
    \/ \E c \in Gens : ConsumerCollect(c) \/ ConsumerSeesClosed(c)
    \/ OutScan \/ OutReadError \/ OutEOF
    \/ ErrLine \/ ErrDone
    \/ \E p \in {"out", "err"} : SafeSendRead(p) \/ SafeSendDeliver(p)

SpecFail == InitScan /\ [][NextFail]_vars

\* ---- scenario: records over several lines --------------------------------
\* One string-mode connection whose child writes whole records, the two
\* lines of split records and junk of any size.
NextAccum ==
    \/ ConnectOK(OneConn)
    \/ \E g \in Gens : CloserStart(g)
    \/ ChildWriteAssistant \/ ChildWriteSplit \/ ChildWriteRaw
    \/ \E c \in Gens : ConsumerCollect(c)
    \/ OutScan \/ OutAccumulate \/ OutTooLong
    \/ \E p \in {"out"} : SafeSendRead(p) \/ SafeSendDeliver(p)

SpecAccum == InitScan /\ [][NextAccum]_vars

\* ---- scenario: stderr output of any size ---------------------------------
\* One connection in either mode; the child writes stderr lines of any size
\* and exits or is killed; Disconnect may be called at any time.
NextStderr ==
    \/ ConnectOK(OneConn)
    \/ DisconnectBegin \/ DisconnectProcDone \/ DisconnectReturn
    \/ \E g \in Gens : CloserStart(g) \/ CloserProcDone(g) \/ CloserTasksDone(g) \/ CloserClose(g)
    \/ ChildWriteStderrSized \/ ChildExit \/ ContextKill
    \/ \E c \in Gens : ConsumerCollect(c) \/ ConsumerSeesClosed(c)
    \/ StdinChanEnd
    \/ PromptNext
    \/ OutReadError \/ OutEOF
    \/ ErrLine \/ ErrDrain \/ ErrReaderGone \/ ErrDone \/ ErrDrainDone \/ ErrCancelled
    \/ \E p \in {"out", "err"} : SafeSendRead(p) \/ SafeSendDeliver(p) \/ SafeSendCancelled(p)

SpecStderr == InitCfg(BOOLEAN, {FALSE}, NumPrompt) /\ [][NextStderr]_vars

\* ---- scenario: ReceiveMessages at any time ---------------------------------
\* The same with ReceiveMessages called at any time after Connect.
NextRecv == NextFail \/ ReceiveMessagesCall

SpecRecv == InitScan /\ [][NextRecv]_vars

\* ---- scenario: a prompt stream with close-stdin-after-prompt -------------
\* Streaming mode with closeStdinAfterPrompt, one connection, nobody calls
\* Disconnect: the prompt source yields its records and ends, the child
\* writes records and exits, the consumer reads until the channel closes.
InitPrompted == InitCfg({TRUE}, {TRUE}, 0)

NextPrompted ==
    \/ ConnectOK(OneConn)
    \/ \E g \in Gens : CloserStart(g) \/ CloserProcDone(g) \/ CloserTasksDone(g) \/ CloserClose(g)
    \/ ChildWriteDomain \/ ChildExit
    \/ \E c \in Gens : ConsumerCollect(c) \/ ConsumerSeesClosed(c)
    \/ StdinRecv \/ StdinWrite
    \/ PromptNext \/ PromptEnqueue \/ PromptCloseStdin
    \/ OutScan \/ OutReadError \/ OutEOF
    \/ ErrDone \/ ErrTimeout
    \/ \E p \in {"in", "out", "err"} : SafeSendRead(p) \/ SafeSendDeliver(p)

SpecPrompted == InitPrompted /\ [][NextPrompted]_vars

\* ==== properties ==========================================================

\* The records of the SendRequest caller among the JSON texts of a stream.
SentSeen(stream) ==
    SelectSeq(stream, LAMBDA x : x.t = "json" /\ x.v.type = "user" /\ x.v.src = "send")

\* Every JSON text is followed by exactly one newline: one record per line.
OneRecordPerLine(stream) ==
    /\ Len(stream) % 2 = 0
    /\ \A i \in 1..Len(stream) :
         stream[i].t = (IF i % 2 = 1 THEN "json" ELSE "nl")

\* C1: what the child reads on its input stream is one newline-terminated
\* line per record, and the records of the SendRequest caller appear in it
\* in the order they were submitted, none twice and none that was not
\* submitted.
C1_SendOrder ==
    /\ OneRecordPerLine(childIn)
    /\ LET ss == SentSeen(childIn) IN
       /\ \A i \in 1..Len(ss) : ss[i].v.n \in 1..sendIdx
       /\ \A i, j \in 1..Len(ss) : i < j => ss[i].v.n < ss[j].v.n

\* C1 witness: the child has read all the caller's records and a record of
\* another writer (the prompt source) on the same stream.
C1_Witness ==
    /\ Len(SentSeen(childIn)) >= 2
    /\ Len(childIn) > 2 * Len(SentSeen(childIn))

\* C2: a Disconnect that has begun returns.  Stated on states: as long as
\* Disconnect has not returned, some goroutine or the child can still take
\* a step; a state in which nothing can move is a Disconnect that never
\* returns.
C2_DisconnectReturns ==
    (Running /\ appPc # "idle") => ENABLED NextLife

\* The fields of the transport and the state of the process and channels.
transportState ==
    <<connected, mu, gen, ctxCancelled, proc, exitCode, waited, stdin, stdinChan,
      outChan, outBuf, outClosed, taskGroup, pending, requestCounter, pc>>

\* A step of the Connect/Disconnect caller that is a Disconnect call.
DisconnectCallStep ==
    /\ appPc = "idle"
    /\ \/ appPc' = "d_waitproc"
       \/ appRes' = "disc_noop" /\ appRes # "disc_noop"

\* C3: Disconnect on a transport that is not connected returns nil and
\* changes nothing: no field, process, queue, stream or channel changes and
\* the call does not enter the shutdown sequence.
C3_DisconnectNoop ==
    [][(~connected /\ DisconnectCallStep)
         => (appRes' = "disc_noop" /\ appPc' = "idle" /\ UNCHANGED transportState)]_vars

\* C3 witness: Disconnect returned as a no-op after an earlier Disconnect
\* had shut a connection down.
C3_Witness == appRes = "disc_noop" /\ discFrom # Nil

\* C4: no outbound channel is closed more than once.
C4_ClosedAtMostOnce == \A c \in Gens : outClosed[c] <= 1

\* C4 witness: two successive connections, the channel of each closed once.
C4_Witness == outClosed[1] = 1 /\ outClosed[2] = 1

\* C5: when Disconnect has returned from a connected transport, the outbound
\* channel it found is closed.
C5_ClosedAtReturn ==
    (appRes = "disc_done" /\ discFrom # Nil) => outClosed[discFrom] >= 1

\* C6: nothing is ever sent on the send queue after it was closed.
C6_NoSendAfterClose == "send_closed_stdinChan" \notin panics

\* C7: a control request that returns a response returns the response
\* carrying its own request id.
C7_OwnResponse ==
    \A c \in Callers :
        ctl[c].res \in {"ok", "failed"} => ctl[c].resp.request_id = ctl[c].id

\* C7 witness: two requests outstanding, the later one answered first: its
\* caller has returned while the caller of the earlier one still polls.
C7_Witness ==
    \E a, b \in Callers :
        /\ a # b /\ Len(issued) >= 2
        /\ ctl[a].pc = "poll" /\ ctl[a].id = issued[1].id
        /\ ctl[b].pc = "idle" /\ ctl[b].res = "ok" /\ ctl[b].id = issued[2].id

\* C8: the pending-response table holds entries only for ids whose caller
\* is still waiting.
C8_NoStaleEntry ==
    \A e \in pending : \E c \in Callers : Active(c) /\ ctl[c].id = e.key

\* C9: no two control requests of the transport got the same id.
C9_UniqueIds ==
    \A i, j \in 1..Len(issued) : i # j => issued[i].id # issued[j].id

\* C9 witness: ids issued on two different connections of the transport.
C9_Witness ==
    \E i, j \in 1..Len(issued) : issued[i].conn # issued[j].conn

\* C10: a control request returns a response without error only when the
\* response's subtype is not "error".
C10_ErrorSubtypeFails ==
    \A c \in Callers : ctl[c].res = "ok" => ctl[c].resp.subtype # "error"

\* Records in a stream that carry request id `id`.
RequestsOf(stream, id) ==
    SelectSeq(stream, LAMBDA x : x.t = "json" /\ x.v.type = "control_request"
                                  /\ x.v.request_id = id)

\* Every id sendControlRequest can build within the bounds.
AllIds == {FormatID(n, t) : n \in 1..MaxReq, t \in 0..MaxClock}

\* A control response for `id` with subtype success has been read from the
\* child: readOutput holds it or has stored it.
SuccessRead(id) ==
    \/ line # NoMsg /\ line.response.request_id = id /\ line.response.subtype = "success"
    \/ \E e \in pending : e.key = id /\ e.resp.subtype = "success"

\* C11: in streaming mode on a connected transport, an Interrupt whose
\* request got an answer has put exactly one control_request record with
\* subtype interrupt and its own, fresh id on the child's input stream, and
\* once a success response with that id has been read from the child the
\* call eventually returns without error.
C11_InterruptReturns ==
    /\ [](\A c \in Callers :
            ctl[c].pc \in {"del", "idle"} /\ ctl[c].resp # NoMsg =>
              /\ Len(RequestsOf(childIn, ctl[c].id)) = 1
              /\ RequestsOf(childIn, ctl[c].id)[1].v.request.subtype = "interrupt"
              /\ Cardinality({i \in 1..Len(issued) : issued[i].id = ctl[c].id}) = 1)
    /\ \A c \in Callers : \A id \in AllIds :
          (ctl[c].id = id /\ ctl[c].pc = "poll" /\ SuccessRead(id))
            ~> (ctl[c].id = id /\ ctl[c].pc = "idle" /\ ctl[c].res = "ok")

\* C11 witness: both callers' Interrupts have returned without error, each
\* on a success response.
C11_Witness ==
    \A c \in Callers :
        ctl[c].pc = "idle" /\ ctl[c].res = "ok" /\ ctl[c].resp # NoMsg
        /\ ctl[c].resp.subtype = "success"

\* A control request that is blocked: queueing its record, waiting in the
\* ticker select, or inside the RLock of a poll.
Blocked(c) == ctl[c].pc \in {"enq", "poll", "rlock"}

\* C12: a blocked control request returns the context's error once its
\* context is done.  Stated on states: a blocked request can return by
\* cancellation right now, or it is waiting for the lock and something can
\* still move toward releasing it; a state in which a request is blocked, a
\* cancellation cannot be honoured and nothing can move is a request that
\* never returns however long its context has been done.
C12_CancelReturns ==
    \A c \in Callers :
        (Running /\ Blocked(c)) => (ENABLED CtlCancelled(c)) \/ (ENABLED NextCancel)

\* A step in which caller c enters sendControlRequest.
ControlCallStep(c) == ctl[c].pc = "idle" /\ ctl'[c] # ctl[c]

\* C13: a control request issued while the transport is not connected or
\* while the input stream is not an open stream (closed, or never opened)
\* fails at once with a connection error: no id is taken, nothing is put
\* on the send queue and nothing is added to the pending-response table.
C13_FailsWhenUnavailable ==
    [][\A c \in Callers :
         (ControlCallStep(c) /\ (~connected \/ stdin # "open"))
           => /\ ctl'[c].pc = "idle" /\ ctl'[c].res = "conn_err"
              /\ UNCHANGED <<stdinChan, pending, issued, requestCounter>>]_vars

\* readOutput takes a line of more than maxBufferSize bytes off the stream.
OversizedStep ==
    /\ pc["out"] = "scan" /\ stdoutBuf # <<>>
    /\ LineSize(Head(stdoutBuf)) > maxBufferSize
    /\ stdoutBuf' = Tail(stdoutBuf)

\* C14: on a line of more than maxBufferSize bytes the stdout pump emits
\* the buffer-overflow error and goes on scanning, so that the valid line
\* after it is parsed and delivered; it does not terminate.
C14_OverflowRecovery ==
    [][OversizedStep =>
         /\ ssMsg'["out"] = OverflowErr
         /\ AfterSend("out", ssMsg'["out"]) = "scan"]_vars

\* The ProcessExitError values among a sequence of messages.
ExitErrors(msgs) == SelectSeq(msgs, LAMBDA m : m.k = "exit")

\* Everything put on channel c so far, in order: what the consumer has
\* taken, then what is still buffered.
Emitted(c) == SelectSeq(received[c], LAMBDA m : m # ClosedMark) \o outBuf[c]

\* C15: when the child of the current connection has exited with status
\* zero, no ProcessExitError is on that connection's outbound channel, has
\* been received from it, or is about to be sent, whatever the child wrote
\* to stderr; and no ProcessExitError on any channel carries exit code zero.
C15_NoExitErrorOnZero ==
    /\ (gen > 0 /\ proc = "exited" /\ exitCode = 0) =>
          /\ ExitErrors(Emitted(gen)) = <<>>
          /\ ssMsg["err"].k # "exit"
    /\ \A c \in Gens : \A i \in 1..Len(Emitted(c)) :
          Emitted(c)[i].k = "exit" => Emitted(c)[i].code # 0

\* C15 witness: the child wrote to stderr and exited with status zero,
\* readStderr collected the output and finished, the channel was closed and
\* the consumer saw it close.
C15_Witness ==
    /\ proc = "exited" /\ exitCode = 0 /\ waited
    /\ stderrLines > 0 /\ stderrCnt > 0
    /\ pc["err"] = "done"
    /\ gen > 0 /\ ClosedMark \in {received[gen][i] : i \in 1..Len(received[gen])}

\* C16: when the child has exited with a non-zero status without writing
\* to stderr and the consumer has read the channel to its close (nobody
\* having disconnected), it has received exactly one ProcessExitError, with
\* that exit code and empty stderr detail.
C16_ExitErrorOnFailure ==
    (/\ gen > 0 /\ proc = "exited" /\ exitCode # 0 /\ stderrCnt = 0
     /\ ~ctxCancelled
     /\ ClosedMark \in {received[gen][i] : i \in 1..Len(received[gen])})
    => /\ Len(ExitErrors(received[gen])) = 1
       /\ ExitErrors(received[gen])[1].code = exitCode
       /\ ExitErrors(received[gen])[1].lines = 0

\* C17: in string mode, when the child has written one domain record and
\* exited with status zero, nobody has called Disconnect and the consumer
\* has read the channel to its close, it has received exactly that record
\* and no error, however the process-exit wait and the stdout pump's reads
\* were interleaved.
C17_OneRecordThenClose ==
    (/\ ~isStreaming /\ gen > 0
     /\ proc = "exited" /\ exitCode = 0 /\ stdoutCnt = 1
     /\ appPc = "idle" /\ discFrom = Nil /\ ~ctxCancelled
     /\ ClosedMark \in {received[gen][i] : i \in 1..Len(received[gen])})
    => received[gen] = <<DataMsg(DomainLine(1)), ClosedMark>>

\* C18: in streaming mode with close-stdin-after-prompt, once the prompt
\* source is exhausted and the child has exited, the outbound channel gets
\* closed without a Disconnect.  Stated on states: when the prompt pump has
\* finished, the child has exited and no goroutine can take another step,
\* the channel has been closed; a state where everything has come to rest
\* with the channel open is a consumer that never terminates.
C18_ClosedAfterPrompt ==
    (/\ Running /\ isStreaming /\ closeStdinAfterPrompt /\ gen > 0
     /\ pc["prompt"] = "done" /\ promptIdx = NumPrompt
     /\ proc = "exited"
     /\ ~ENABLED NextPrompted)
    => outClosed[gen] >= 1

\* A step of a Connect call: it alone sets the result the caller sees to one
\* of Connect's return values.
ConnectStep ==
    /\ appPc = "idle" /\ appPc' = "idle"
    /\ appRes' \in {"already_connected", "launch_error", "nil"}
    /\ \/ appRes' # appRes
       \/ gen' # gen

\* What a spawn and the start of the pumps change.
SpawnState == <<gen, proc, ctxCancelled, taskGroup, pc, closerPc, outChan, stdinChan, stdin>>

\* C19: a Connect call on a connected transport returns the "Already connected"
\* connection error and creates no command, starts no child, no pump and no
\* channel-closing goroutine; Connect calls are serialised by t.mu, so of
\* several calls on a disconnected transport only the one that finds
\* connected false starts a child, and a child is started only when the
\* previous one is not running.
C19_ConnectOnce ==
    /\ [][(ConnectStep /\ connected)
            => (appRes' = "already_connected" /\ connected' /\ UNCHANGED SpawnState)]_vars
    /\ [][(gen' # gen) => (~connected /\ proc # "running" /\ mu = "free")]_vars
    /\ [][(proc' = "running" /\ proc # "running") => (gen' = gen + 1 /\ connected')]_vars

C19_Witness ==
    /\ appRes = "already_connected" /\ connected /\ proc = "running"
    /\ gen = 1 /\ closerPc[1] # "off"

\* The first step of a SendRequest call: the two checks before the loop.
SendCallStep ==
    /\ sendPc = "idle"
    /\ sendRes' # sendRes \/ sendPc' # sendPc

WrittenSends == SelectSeq(childIn, LAMBDA x : x.t = "json" /\ x.v.src = "send")

\* C21: every record of the caller that reaches the child's stdin carries a
\* session_id: its own when it was passed in with one, otherwise the one
\* SendRequest derives from the call's metadata.
C21_SessionStamped ==
    \A i \in 1..Len(WrittenSends) :
        LET rec == WrittenSends[i].v
            inp == SendInput(rec.n)
        IN  /\ "session_id" \in DOMAIN rec
            /\ rec.session_id = (IF "session_id" \in DOMAIN inp
                                   THEN inp.session_id
                                   ELSE SessionID(sendMeta))

\* The caller's records in the send queue, oldest first.
QueuedSends(ch) ==
    SelectSeq(ch.buf, LAMBDA ln : ln[1].v.type = "user" /\ ln[1].v.src = "send")

\* C22: the send queue never holds more than its capacity; a SendRequest
\* whose next record finds the queue full does not enqueue it (it waits);
\* and when the call returns the context's error instead, the record it was
\* waiting to send is not enqueued and the queue, with the earlier records
\* of the batch, is left as it was.
C22_BoundedQueue ==
    /\ [](Len(stdinChan.buf) <= StdinChanCap)
    /\ [][(sendIdx' # sendIdx) => (Len(stdinChan.buf) < StdinChanCap)]_vars
    /\ [][(sendPc = "select" /\ sendRes' = "ctx_err")
            => (/\ sendPc' = "idle" /\ sendIdx' = sendIdx
                /\ stdinChan' = stdinChan
                /\ \A i \in 1..Len(QueuedSends(stdinChan)) :
                      QueuedSends(stdinChan)[i][1].v.n <= sendIdx
                /\ \A i, j \in 1..Len(QueuedSends(stdinChan)) :
                      i < j => QueuedSends(stdinChan)[i][1].v.n < QueuedSends(stdinChan)[j][1].v.n)]_vars

C22_Witness ==
    /\ connected /\ stdinChan.st = "open"
    /\ Len(stdinChan.buf) = StdinChanCap
    /\ sendIdx >= 1 /\ sendIdx < NumRecs
    /\ Len(QueuedSends(stdinChan)) >= 1
    /\ sendPc = "idle" /\ sendRes = "ctx_err"

\* The domain records among msgs, in order.
DomainRecords(msgs) == SelectSeq(msgs, LAMBDA m : m.k = "data")

\* C23: on every outbound channel the domain records received so far,
\* followed by those still buffered, are records the child wrote, in the
\* order it wrote them and each at most once (the child numbers its lines
\* as it writes them).
C23_EmissionOrder ==
    \A c \in Gens :
        LET ds == DomainRecords(Emitted(c)) IN
        /\ \A i \in 1..Len(ds) : ds[i].v.type = "result" /\ ds[i].v.n \in 1..stdoutCnt
        /\ \A i, j \in 1..Len(ds) : i < j => ds[i].v.n < ds[j].v.n

C23_Witness ==
    /\ gen > 0
    /\ Len(DomainRecords(received[gen])) = MaxStdout
    /\ MaxStdout >= 2

\* Well-formed control responses among msgs.
ControlResponsesIn(msgs) ==
    SelectSeq(msgs, LAMBDA m : /\ m.k = "data"
                               /\ m.v.type = "control_response"
                               /\ WellFormedCtl(m.v))

\* readOutput takes a well-formed control response off the pipe.
ScansControlResponse ==
    /\ pc["out"] = "scan" /\ stdoutBuf # <<>>
    /\ stdoutBuf' = Tail(stdoutBuf)
    /\ Head(stdoutBuf).type = "control_response" /\ WellFormedCtl(Head(stdoutBuf))

\* C24: a control_response record with a response object and a string
\* request_id is never handed to safeSend, never on an outbound channel and
\* never received by the consumer; readOutput holds it for the store, and
\* the store puts it in the pending table under its request_id.
C24_ControlResponseRouted ==
    /\ [](/\ \A c \in Gens : ControlResponsesIn(Emitted(c)) = <<>>
           /\ ControlResponsesIn(<<ssMsg["out"]>>) = <<>>)
    /\ [][ScansControlResponse
            => (line' = Head(stdoutBuf) /\ pc'["out"] = "store" /\ UNCHANGED <<ssMsg, outBuf>>)]_vars
    /\ [][(pc["out"] = "store" /\ pc'["out"] # "store")
            => ([key |-> line.response.request_id, resp |-> line.response] \in pending')]_vars

C24_Witness ==
    /\ \E e \in pending : e.resp.subtype = "success"
    /\ gen > 0 /\ Len(DomainRecords(received[gen])) >= 1
    /\ pc["out"] = "scan"

\* readOutput takes a control_response record that is not well formed off
\* the pipe.
ScansMalformed ==
    /\ pc["out"] = "scan" /\ stdoutBuf # <<>>
    /\ stdoutBuf' = Tail(stdoutBuf)
    /\ Head(stdoutBuf).type = "control_response" /\ ~WellFormedCtl(Head(stdoutBuf))

\* C25: a parsed record of type control_response without a response object
\* or without a string request_id is handed to safeSend as a domain record.
C25_MalformedForwarded ==
    [][ScansMalformed
        => (ssMsg'["out"] = DataMsg(Head(stdoutBuf)) /\ pc'["out"] = "ss_read")]_vars

\* The child is killed in this step.
KillStep == proc = "running" /\ proc' = "exited" /\ exitCode' = Killed

\* C26: the child is killed only by a Disconnect that has closed the child's
\* input and has then waited the whole grace period (its timeout branch was
\* taken); a child that exits when its input closes is therefore not killed
\* before the grace period is over.
C26_KillOnlyAfterGrace ==
    [][KillStep => (InputClosed /\ appPc = "d_killwait")]_vars

LaunchErrors == {"cwd_missing", "cli_not_found", "launch_error"}

\* A Connect call returns after cmd.Start() failed: it created a command
\* and returned one of the launch errors.
LaunchFailStep ==
    /\ appPc = "idle" /\ ~connected
    /\ gen' = gen + 1 /\ appRes' \in LaunchErrors

\* C27: when cmd.Start() fails Connect returns the working-directory error
\* if the configured directory is missing, otherwise the executable-missing
\* error if the executable is missing, otherwise the generic spawn error;
\* the transport stays disconnected with no pump, no channel-closing
\* goroutine and no outbound channel added; and a Connect call made after a
\* launch error is never answered "Already connected".
C27_LaunchFailure ==
    /\ [][LaunchFailStep
            => (/\ cwd = "missing" => appRes' = "cwd_missing"
                /\ (cwd # "missing" /\ ~cliFound) => appRes' = "cli_not_found"
                /\ (cwd # "missing" /\ cliFound) => appRes' = "launch_error"
                /\ ~connected' /\ proc' # "running"
                /\ UNCHANGED <<pc, taskGroup, closerPc, outChan, outBuf, outClosed, stdinChan>>)]_vars
    /\ [](appRes \in LaunchErrors => ~connected)
    /\ [][(appRes \in LaunchErrors /\ appPc = "idle" /\ appPc' = "idle")
            => appRes' # "already_connected"]_vars

C27_Witness ==
    /\ appRes = "cwd_missing" /\ ~cliFound
    /\ gen = 2 /\ ~connected
    /\ \A p \in Pumps : pc[p] = "off"

\* Caller c invokes Interrupt and the call takes its first step.
InterruptCallStep(c) ==
    /\ ctl[c].pc = "idle"
    /\ ctl'[c] # ctl[c]

\* C28: an Interrupt call made while the transport is not connected returns
\* a connection error at once, in string mode as in streaming mode, sends
\* no signal and puts no control request on the send queue.
C28_InterruptNeedsConnection ==
    [][\A c \in Callers :
          (InterruptCallStep(c) /\ ~connected)
            => (/\ ctl'[c].pc = "idle" /\ ctl'[c].res = "conn_err"
                /\ UNCHANGED <<stdinChan, issued, requestCounter>>)]_vars

\* C29: once the context passed to Query is done, the run does not come to
\* rest before Query's goroutine has disconnected the client and closed the
\* channel it returned: whenever nothing more can happen, the transport is
\* disconnected and the channel is closed.
C29_CancelledQueryCloses ==
    (Running /\ gen > 0 /\ callCtxDone /\ ~ENABLED NextQuery)
        => (QueryClosed /\ ~connected)

\* What the consumer of ReceiveResponse's channel has got on connection c.
Yielded(c) == SelectSeq(received[c], LAMBDA m : m.k # "unread")

\* The position of the first result message in msgs, 0 when there is none.
FirstResult(msgs) ==
    IF \E i \in 1..Len(msgs) : msgs[i].k = "data" /\ msgs[i].v.type = "result"
      THEN CHOOSE i \in 1..Len(msgs) :
             /\ msgs[i].k = "data" /\ msgs[i].v.type = "result"
             /\ \A j \in 1..(i - 1) : ~(msgs[j].k = "data" /\ msgs[j].v.type = "result")
      ELSE 0

PromptSeen(stream) ==
    SelectSeq(stream, LAMBDA x : x.t = "json" /\ x.v.type = "user" /\ x.v.src = "prompt")

\* The step of streamToStdin that closes t.stdin after the prompt source
\* signalled end of stream.
PromptCloseStep == pc["prompt"] = "close" /\ pc'["prompt"] = "done"

\* C31: with close-stdin-after-prompt, when the prompt pump closes the input
\* stream every record the prompt source produced has already been written
\* to the child.
C31_WrittenBeforeClose ==
    [][PromptCloseStep => Len(PromptSeen(childIn)) = promptIdx]_vars

\* C32: when the child of the current connection has written to stderr and
\* exited with a non-zero status, nobody has disconnected and the stderr
\* pump has collected the output and finished, exactly one ProcessExitError has been put on the
\* connection's outbound channel, and it carries that exit code and stderr
\* text, whether the stderr stream ended before or after the process-exit
\* wait resolved.
C32_OneExitErrorWithStderr ==
    (/\ gen > 0 /\ proc = "exited" /\ exitCode # 0 /\ stderrCnt > 0
     /\ ~ctxCancelled /\ connected /\ appPc = "idle"
     /\ stderrLines > 0 /\ pc["err"] = "done")
    => /\ Len(ExitErrors(Emitted(gen))) = 1
       /\ ExitErrors(Emitted(gen))[1].code = exitCode
       /\ ExitErrors(Emitted(gen))[1].lines > 0

\* A step of readOutput that takes a line off the stream and parses the
\* accumulated text: the record is handed to safeSend or to the table.
ParseStep ==
    /\ pc["out"] = "scan" /\ stdoutBuf' # stdoutBuf
    /\ \/ pc'["out"] = "store"
       \/ pc'["out"] = "ss_read" /\ ssMsg'["out"].k = "data"

\* A step of readOutput that takes a line off the stream and finds the
\* accumulated text over the limit.
OverflowStep ==
    /\ pc["out"] = "scan" /\ stdoutBuf' # stdoutBuf
    /\ pc'["out"] = "ss_read" /\ ssMsg'["out"] = OverflowErr

StderrLoopStep ==
    ErrLine \/ ErrDrain \/ ErrReaderGone \/ ErrDone \/ ErrDrainDone \/ ErrCancelled

\* C35: once Disconnect has cancelled the connection context and the child
\* has exited, the stderr pump is never left in one of its loops with no
\* step to take: a pump at rest inside a loop never terminates.
C35_StderrPumpTerminates ==
    (/\ Running /\ gen > 0 /\ ~connected /\ ctxCancelled /\ proc = "exited"
     /\ pc["err"] \in {"run", "drain"})
    => ENABLED StderrLoopStep

\* C36: IsConnected returns true only while the child process is running:
\* it is false before a Connect has succeeded, after Disconnect, and once
\* the child has exited on its own.  The exit counts from the moment the
\* transport has dealt with it: the goroutine that waits for the process
\* has seen the exit, the pumps have finished and the outbound channel is
\* closed.
C36_ConnectedMeansRunning ==
    /\ gen = 0 => ~IsConnected
    /\ (appPc = "idle" /\ appRes = "disc_done") => ~IsConnected
    /\ (gen > 0 /\ proc = "exited" /\ closerPc[gen] = "done") => ~IsConnected

\* The channel-closing goroutine that connection g started closes and
\* clears the channel t.outChan holds.
CloserCloseStep(g) ==
    /\ closerPc[g] = "lock" /\ closerPc'[g] = "done"
    /\ outChan # Nil /\ outChan' = Nil

\* C37: the goroutine an earlier connection started never closes or clears
\* the outbound channel of a later connection while pumps of that
\* connection are running.
C37_ClosesOwnChannel ==
    [][\A g \in Gens : (CloserCloseStep(g) /\ outChan # g) => taskGroup = 0]_vars

\* readOutput takes a line off the stream that is a complete JSON object by
\* itself.
ScansWholeRecord ==
    /\ pc["out"] = "scan" /\ stdoutBuf # <<>>
    /\ Head(stdoutBuf).type # "fragment"
    /\ stdoutBuf' = Tail(stdoutBuf)

\* C38: while the connection is live, every line that is a complete JSON
\* object by itself is routed when the stdout pump takes it: stored as a
\* control response or handed to safeSend as a domain record, whatever the
\* lines before it were.
C38_WholeLineRouted ==
    [][(connected /\ ScansWholeRecord)
         => \/ pc'["out"] = "store" /\ line' = Head(stdoutBuf)
            \/ pc'["out"] = "ss_read" /\ ssMsg'["out"] = DataMsg(Head(stdoutBuf))]_vars

\* C39: once ReceiveResponse has been called again on a connection, no
\* message that the transport delivered on it has gone to a goroutine whose
\* channel nobody reads: every message taken off the outbound channel was
\* yielded by the channel of one of the calls.
C39_NoMessageLost ==
    \A c \in Gens :
        (\E i \in 1..Len(received[c]) : received[c][i] = CallMark)
            => \A i \in 1..Len(received[c]) : received[c][i].k # "unread"

\* C40: a ReceiveMessages call made after the outbound channel of the
\* connection was closed returns a channel on which a receive completes (a
\* closed channel), never one on which it blocks forever.
C40_ReceiveAfterEndCompletes ==
    \A i \in 1..Len(recvChan) :
        recvChan[i].ended => ReceiveCompletes(recvChan[i].ch)
====
